---- MODULE Spec2Model ----
(***************************************************************************)
(* Model of the GRL API client (client/grl_api_client.py): the test-run    *)
(* monitor of submit_test_list, the stop entry points, the pop-up          *)
(* responder threads of connect/submit_test_list and the launch/connect/   *)
(* disconnect lifecycle; and of the process launcher                       *)
(* (utils/web_app_controller.py): start_and_get_url and stop_process.      *)
(*                                                                         *)
(* Strings that the code parses are sequences of tokens (a word, ":" or a  *)
(* blank) so that split(':'), strip() and the "Started" substring test are *)
(* computed, not assumed.  No token other than "Started" contains the text *)
(* Started.                                                                *)
(***************************************************************************)
EXTENDS Integers, Sequences, FiniteSets, TLC

\* ------------------------------------------------------------------ bounds

\* Responder threads that may be created in one behaviour (one per
\* connect/submit_test_list call that gets as far as starting one).
MaxThreads == 2

\* Evaluations of the RUNNING-loop condition modelled in one submit_test_list.
MaxRunChecks == 4

\* Calls the external stopper makes in one behaviour.
MaxStopCalls == 1

\* launch_app/disconnect calls in one behaviour.
MaxLifecycleCalls == 3

\* start_and_get_url/stop_process calls on one WebAppController.
MaxLauncherCalls == 2

\* Direct update_system_state calls in one behaviour.
MaxUpdateCalls == 2

\* ------------------------------------------------------- program constants

\* timeout = 30: seconds submit_test_list waits for the test to start.
StartTimeout == 30

\* time.sleep(1) between two polls of the wait-for-start loop.
StartPollSleep == 1

\* WebAppController(..., max_connection_attempts: int = 3, ...)
max_connection_attempts == 3

\* WebAppController(..., connection_timeout: int = 30)
connection_timeout == 30

\* requests.get(..., timeout=5) of a poll probe.
ProbeTimeout == 5

\* time.sleep(2) between two poll rounds.
RoundSleep == 2

\* for _ in range(5): the exit checks of stop_process.
StopChecks == 5

\* ------------------------------------------------------------------- data

\* Python's None for object-valued attributes.
NONE == "None"

\* dict.get sentinel: the key is absent from the payload.
Missing == "<missing>"

\* Seconds one status poll (two HTTP requests) may take: immediate, or slow.
PollSeconds == {0, 14}

\* Optional[str] values of the State Snapshot.
NoneStr == [some |-> FALSE, s |-> <<>>]

SomeStr(s) == [some |-> TRUE, s |-> s]

\* ---- payload of Results/GetTestStatus as send_request hands it over:
\* response.get("data", {}).  dict = FALSE: the body was not a JSON object
\* (raw text, a list, null).  has = FALSE: no "Test Status" key (also the {}
\* default of a failed request).  null = TRUE: "Test Status": null.
StatusDict(t) == [dict |-> TRUE, has |-> TRUE, null |-> FALSE, text |-> t]

StatusNoKey == [dict |-> TRUE, has |-> FALSE, null |-> FALSE, text |-> <<>>]

StatusNull == [dict |-> TRUE, has |-> TRUE, null |-> TRUE, text |-> <<>>]

StatusNotDict == [dict |-> FALSE, has |-> FALSE, null |-> FALSE, text |-> <<>>]

\* ---- payload of App/GetAppState.
AppDict(a, c) == [dict |-> TRUE, appState |-> a, connectionState |-> c]

AppNotDict == [dict |-> FALSE, appState |-> Missing, connectionState |-> Missing]

\* The {} default of a request that failed at the transport level.
AppEmpty == AppDict(Missing, Missing)

\* Test-status strings the application may report.
TxtEmpty == <<>>

TxtStarted == <<"Test", ":", "TC1", ":", "Started">>

TxtCompleted == <<"Test", ":", "TC1", ":", "Completed">>

TxtMiddle == <<"Test", ":", " ", "Foo", " ", ":", "Bar", ":", "Started", " ">>

TxtShort == <<"Test", ":", "Foo">>

TxtBareStarted == <<"Started">>

TxtIdle == <<"Idle">>

StatusTexts ==
  {TxtEmpty, TxtStarted, TxtCompleted, TxtMiddle, TxtShort, TxtBareStarted, TxtIdle}

StatusPayloads ==
  {StatusDict(t) : t \in StatusTexts} \cup {StatusNoKey, StatusNull, StatusNotDict}

AppStateValues == {"READY", "BUSY", "ERROR", "UNKNOWN"}

AppPayloads ==
  {AppDict(a, c) : a \in AppStateValues, c \in {"CONNECTED", Missing}}
    \cup {AppEmpty, AppNotDict}

\* -------------------------------------------------------- string helpers

\* str.split(':') -- the segments between ":" tokens (always at least one).
RECURSIVE Split(_)
Split(s) ==
  IF \A i \in 1..Len(s) : s[i] # ":"
    THEN <<s>>
    ELSE LET k == CHOOSE i \in 1..Len(s) :
                    s[i] = ":" /\ \A j \in 1..(i - 1) : s[j] # ":"
         IN  <<SubSeq(s, 1, k - 1)>> \o Split(SubSeq(s, k + 1, Len(s)))

\* str.strip() -- leading and trailing blanks removed.
RECURSIVE Strip(_)
Strip(s) ==
  IF s = <<>> THEN s
  ELSE IF Head(s) = " " THEN Strip(Tail(s))
  ELSE IF s[Len(s)] = " " THEN Strip(SubSeq(s, 1, Len(s) - 1))
  ELSE s

\* test_info_string.startswith('Test:')
StartsWithTest(s) == Len(s) >= 2 /\ s[1] = "Test" /\ s[2] = ":"

\* "Started" in current_test_status
ContainsStarted(s) == \E i \in 1..Len(s) : s[i] = "Started"

\* dict.get(key, default) on a value that may be Missing.
Get(v, default) == IF v = Missing THEN default ELSE v

\* ------------------------------------------------------- State Snapshot

\* SystemState(app_state='UNKNOWN', connection_state='UNKNOWN')
InitialSystemState ==
  [app_state |-> "UNKNOWN", connection_state |-> "UNKNOWN",
   test_case_name |-> NoneStr, test_status |-> NoneStr]

\* The except branch of update_system_state.
ErrorSystemState ==
  [app_state |-> "ERROR", connection_state |-> "ERROR",
   test_case_name |-> NoneStr, test_status |-> NoneStr]

\* Mutant of ParseTestInfo: parts[2] for parts[-1], the third segment taken
\* for the status.
ParseTestInfo_third_segment(st, text) ==
  LET parts == Split(text)
  IN  IF Len(parts) >= 3
        THEN [st EXCEPT !.test_case_name = SomeStr(Strip(parts[2])),
                        !.test_status = SomeStr(Strip(parts[3]))]
        ELSE st

\* Mutant of ParseTestInfo: the status parsed before is kept as the name of
\* the test case.
ParseTestInfo_shifts(st, text) ==
  LET parts == Split(text)
  IN  IF Len(parts) >= 3
        THEN [st EXCEPT !.test_case_name = st.test_status,
                        !.test_status = SomeStr(Strip(parts[Len(parts)]))]
        ELSE st

\* The inner block of update_system_state: parse "Test:<name>:...:<status>".
ParseTestInfo(st, text) ==
  LET parts == Split(text)
  IN  IF Len(parts) >= 3
        THEN [st EXCEPT !.test_case_name = SomeStr(Strip(parts[2])),
                        !.test_status = SomeStr(Strip(parts[Len(parts)]))]
        ELSE st

\* Mutant of update_system_state: without test information the test fields
\* are cleared.
update_system_state_clears(st, app, status) ==
  IF ~app.dict THEN ErrorSystemState
  ELSE LET st1 == [st EXCEPT !.app_state = Get(app.appState, "UNKNOWN"),
                             !.connection_state = Get(app.connectionState, "UNKNOWN")]
       IN  IF ~status.dict THEN ErrorSystemState
           ELSE IF status.has /\ ~status.null /\ status.text # <<>>
                   /\ StartsWithTest(status.text)
                  THEN ParseTestInfo(st1, status.text)
                  ELSE [st1 EXCEPT !.test_case_name = NoneStr, !.test_status = NoneStr]

\* Mutant of update_system_state: the except clause logs and resets nothing.
update_system_state_logs_only(st, app, status) ==
  IF ~app.dict THEN st
  ELSE LET st1 == [st EXCEPT !.app_state = Get(app.appState, "UNKNOWN"),
                             !.connection_state = Get(app.connectionState, "UNKNOWN")]
       IN  IF ~status.dict THEN st1
           ELSE IF status.has /\ ~status.null /\ status.text # <<>>
                   /\ StartsWithTest(status.text)
                  THEN ParseTestInfo(st1, status.text)
                  ELSE st1

\* update_system_state(app_state_dict, test_status_dict) applied to snapshot st.
update_system_state(st, app, status) ==
  IF ~app.dict THEN ErrorSystemState
  ELSE LET st1 == [st EXCEPT !.app_state = Get(app.appState, "UNKNOWN"),
                             !.connection_state = Get(app.connectionState, "UNKNOWN")]
       IN  IF ~status.dict THEN ErrorSystemState
           ELSE IF status.has /\ ~status.null /\ status.text # <<>>
                   /\ StartsWithTest(status.text)
                  THEN ParseTestInfo(st1, status.text)
                  ELSE st1

\* Mutant of RunningDecision: the Started/BUSY test placed before the READY test.
RunningDecision_started_first(app_state_value, current_test_status) ==
  IF ContainsStarted(current_test_status) \/ app_state_value = "BUSY" THEN TRUE
  ELSE FALSE

\* The decision of _is_test_running once both values were read.
RunningDecision(app_state_value, current_test_status) ==
  IF app_state_value = "READY" THEN FALSE
  ELSE IF ContainsStarted(current_test_status) \/ app_state_value = "BUSY" THEN TRUE
  ELSE FALSE

\* Whether the body of _is_test_running raises (caught by its except):
\* no handler, .get on a payload that is no dict, or "Started" in None.
PollRaises(handler, app, status) ==
  \/ handler = NONE
  \/ ~status.dict
  \/ ~app.dict
  \/ /\ status.has /\ status.null
     /\ Get(app.appState, "") # "READY"

\* _is_test_running(): the value returned for the two payloads.
is_test_running(handler, app, status) ==
  IF PollRaises(handler, app, status) THEN FALSE
  ELSE RunningDecision(Get(app.appState, ""),
                       IF status.has THEN status.text ELSE <<>>)

\* The snapshot _is_test_running leaves behind (it calls update_system_state
\* unless the handler is missing, where it raises before).
SnapshotAfterPoll(handler, st, app, status) ==
  IF handler = NONE THEN st ELSE update_system_state(st, app, status)


\* ------------------------------------------------------------------ state

VARIABLES
  \* GRLApiClient attributes
  api_handler,           \* NONE or "GRLApiHandler"
  controller,            \* NONE or "WebAppController"
  base_url,              \* NONE or "http://localhost:port"
  ip_address,            \* config_manager.ip_address: NONE or an address
  popup_thread_active,   \* enable flag of the pop-up responder loop
  stop_requested,        \* cooperative stop flag
  system_state_data,     \* the State Snapshot
  \* the calling (main) thread
  pc,                    \* where the current public operation stands
  result,                \* what the last public operation returned or raised
  test_started,          \* local of submit_test_list
  waited,                \* time.time() - start_time, capped once past the timeout
  popup_thread,          \* the Thread object the current operation created (0: none)
  \* responder threads
  thread,                \* thread id -> position in _handle_popups
  \* a second caller thread using the stop entry points
  stopper_pc,
  stopper_result,
  stop_calls,
  stopper_saw,           \* what the poll of the last stop_test_execution() returned
  \* observations of the run (history, written but never read by the program)
  force_stops,           \* ForceStopCurrentExecution requests since the last submit
                         \* began, by sender: the monitor, the stopper thread
  run_checks,            \* evaluations of the RUNNING-loop condition in this run
  last_poll,             \* the monitor's latest status poll in this run: payloads, verdict
  ever_running,          \* the monitor saw the running predicate true in this run
  stop_set_in_run,       \* a stop entry point set the flag since the last submit began
  scenario,              \* well-formed polls so far follow READY,BUSY,BUSY,READY: how many
  loopers,               \* threads that passed the loop test since the last thread start
  launched_ok,           \* a launch_app returned True since construction/last disconnect
  lifecycle_calls,       \* launch_app/disconnect calls made
  \* a direct call of _is_test_running(): its two payloads and what it returned
  probe,
  \* the WebAppController: its attributes, where its current call stands and
  \* what that call has done so far
  launcher,
  \* what launch_app/disconnect did (history)
  lifecycle_log,
  \* direct calls of update_system_state(): inputs and snapshot before (history)
  update_call,
  \* the two pop-up log files: popup_messages.json, test_case_popup_messages.json
  popup_files,
  \* what __init__ and the ticks of the pop-up responder did (history)
  popup_call,
  \* direct calls of GRLApiHandler.send_request(): inputs and result (history)
  transport,
  \* the current check_api_health() call: mode, progress and its record
  health,
  \* a verify_versions() call on a thread of its own: position and outcome
  verify,
  \* update_system_state() calls in progress, one per calling thread: the
  \* main thread and the stopper thread
  writers,
  \* the last read of the snapshot by the pop-up responder (history)
  seen,
  \* locals of the current connect() call, and what the last direct call of
  \* run_diagnostics() was answered and did (history)
  sweep,
  configured             \* the client's max_connection_attempts and connection_timeout (config.json, common)

clientVars ==
  <<api_handler, controller, base_url, ip_address, popup_thread_active,
    stop_requested, system_state_data>>

mainVars == <<pc, result, test_started, waited, popup_thread>>

stopperVars == <<stopper_pc, stopper_result, stop_calls, stopper_saw>>

runVars == <<force_stops, run_checks, last_poll, ever_running, stop_set_in_run, scenario>>

popVars == <<popup_files, popup_call>>

apiVars == <<transport, health, verify>>

tornVars == <<writers, seen>>

extVars ==
  <<launcher, lifecycle_log, update_call, popVars, apiVars, tornVars, sweep, configured>>

vars ==
  <<clientVars, mainVars, thread, stopperVars, runVars, loopers, launched_ok,
    lifecycle_calls, probe, extVars>>

Threads == 1..MaxThreads

\* last_poll before the first poll of a run.
NoPoll == [polled |-> FALSE, app |-> AppEmpty, status |-> StatusNoKey, running |-> FALSE]

NoForceStops == [monitor |-> 0, stopper |-> 0]

\* probe before any direct call.
NoProbe == [called |-> FALSE, app |-> AppEmpty, status |-> StatusNoKey, running |-> FALSE]

\* Positions of a responder thread inside a loop iteration, blocked in an HTTP
\* request (GetMessageBox, PutMessageBoxResponse).
InRequest == {"fetch", "respond"}

\* Values submit_test_list / connect / launch_app / stop_test_execution return.
RetSuccess == "{success:True}"

RetWarning == "{success:True, warning}"

RetSubmitFailed == "{success:False, error:Failed to submit test list}"

RetCancelled == "{success:False, error:Test cancelled by user}"

RetException == "{success:False, error:exception}"

RetEmptyList == "{success:False, error:Empty test list provided}"

RetNoIp == "{success:False, error:No IP address available.}"

RetConnected == "{success:True, data}"

RetConnectFailed == "{success:False, error:Failed to connect to equipment}"

RaisedPrecondition == "raise Exception(API handler not initialized)"

\* Status polls the application answers the monitor and the stopper with.
PollInputs ==
  { <<AppDict("READY", "CONNECTED"), StatusDict(TxtCompleted)>>,
    <<AppDict("READY", "CONNECTED"), StatusDict(TxtStarted)>>,
    <<AppDict("BUSY", "CONNECTED"), StatusDict(TxtStarted)>>,
    <<AppDict("BUSY", "CONNECTED"), StatusNotDict>>,
    <<AppDict("ERROR", "CONNECTED"), StatusDict(TxtEmpty)>>,
    <<AppDict("UNKNOWN", Missing), StatusDict(TxtStarted)>>,
    <<AppEmpty, StatusNoKey>> }

\* The scenario of the end-to-end test: app_state READY, BUSY, BUSY, READY.
ScenarioStates == <<"READY", "BUSY", "BUSY", "READY">>

Diverged == 0 - 1

\* Progress of the observed polls along ScenarioStates; Diverged once a poll
\* was malformed or reported another state.
ScenarioStep(n, app, status) ==
  IF /\ n # Diverged /\ n < Len(ScenarioStates)
     /\ app.dict /\ status.dict /\ ~status.null
     /\ app.appState = ScenarioStates[n + 1]
    THEN n + 1
    ELSE Diverged


\* ------------------------------------------------------ WebAppController

\* known_port values: none configured, or a port.
Ports == {NONE, "8080"}

\* self.web_url: f"http://localhost:{known_port}" if known_port else None
web_url(known_port) == IF known_port = NONE THEN NONE ELSE "http://localhost:port"

\* endpoints = ["/api/healthcheck", "/", "/api/status"]
Endpoints == <<"/api/healthcheck", "/", "/api/status">>

\* Which of the three endpoints answer a GET: one flag per endpoint.
Answers == [1..Len(Endpoints) -> BOOLEAN]

NoAnswers == [i \in 1..Len(Endpoints) |-> FALSE]

\* What the call in progress has done so far (reset when a call begins).
NoCallHistory ==
  [op |-> "none", ret |-> "none",
   listener |-> FALSE, answers |-> NoAnswers, detected |-> FALSE,
   path_exists |-> FALSE, tracked_alive |-> FALSE, alive_at_call |-> FALSE,
   redetected |-> FALSE, popens |-> 0, early_exit |-> FALSE, slept |-> FALSE, rounds |-> 0, late_rounds |-> 0, tried |-> <<>>,
   polled |-> 0, responded |-> FALSE, after_response |-> 0,
   checks |-> 0, sleeps |-> 0, terminates |-> 0, kills |-> 0, kill_after |-> 0]

\* WebAppController.__init__: process None, web_url from known_port; the
\* locals of a call (attempt, endpoint index, elapsed seconds, exit checks).
NewController(port) ==
  [known_port |-> port, process |-> "none", lpc |-> "idle", calls |-> 0,
   attempt |-> 0, endpoint |-> 0, elapsed |-> 0, h |-> NoCallHistory]

\* self.controller = None
NoController == NewController(NONE)

\* The controller after a start_and_get_url() that started the subprocess.
LaunchedController == [NewController("8080") EXCEPT !.process = "alive"]

\* launch_app/disconnect history: session.close() calls, stop_process() calls
\* (by disconnect; by the finalizer of a dropped controller), what the
\* latest launch_app obtained, and orphans: subprocesses started by
\* launch_app that are alive while no controller of the client holds them.
NoLifecycleLog ==
  [last |-> "none", got_url |-> FALSE, version_ok |-> FALSE,
   closes |-> 0, stops |-> 0, finalizer_stops |-> 0,
   close_failed |-> FALSE, stop_failed |-> FALSE, repeated |-> FALSE,
   orphans |-> 0]

\* update_call before any direct call.
NoUpdateCall ==
  [calls |-> 0, before |-> InitialSystemState, app |-> AppEmpty, status |-> StatusNoKey,
   repeated |-> FALSE]

\* ----------------------------------------------------------- GRLApiHandler

\* Direct send_request() calls followed.
MaxSendCalls == 2

\* verify_versions() calls followed.
MaxVerifyCalls == 2

\* The method argument of send_request.
Methods == {"GET", "post", "PUT", "DELETE", "PATCH"}

\* method.upper()
Upper(method) == IF method = "post" THEN "POST" ELSE method

\* The methods _dispatch_request has a branch for.
Dispatchable == {"GET", "POST", "PUT", "DELETE"}

\* What the session call does: an HTTP response (status code; a body that is
\* JSON or not), or one of the exceptions of requests.
Http(code, json) == [kind |-> "http", status_code |-> code, json |-> json]

Failure(kind) == [kind |-> kind, status_code |-> 0, json |-> FALSE]

WireOutcomes ==
  {Http(200, TRUE), Http(204, FALSE), Http(404, TRUE), Http(500, FALSE),
   Failure("ConnectionError"), Failure("ConnectTimeout"), Failure("ReadTimeout"),
   Failure("RequestException")}

\* The subclasses of requests.exceptions.ConnectionError / Timeout among them
\* (ConnectTimeout is both; the ConnectionError clause comes first).
IsConnectionError(kind) == kind \in {"ConnectionError", "ConnectTimeout"}

IsTimeout(kind) == kind \in {"ConnectTimeout", "ReadTimeout"}

\* What a send_request() call gives its caller: the exception it raised
\* (NONE: it returned), and of result["response"] the keys present and their
\* values.
SendRaised(e) ==
  [raised |-> e, has_success |-> FALSE, success |-> FALSE, has_error |-> FALSE,
   error |-> "", has_status |-> FALSE, status_code |-> 0, content_type |-> ""]

\* send_request(method, ...): _dispatch_request raises ValueError for a
\* method without a branch, and no except clause of send_request takes it; an
\* HTTP response gives status_code, success, data; an exception of requests
\* gives "error" alone.
send_request(method, wire) ==
  IF Upper(method) \notin Dispatchable THEN SendRaised("ValueError")
  ELSE IF wire.kind = "http"
    THEN [raised |-> NONE, has_success |-> TRUE,
          success |-> (200 <= wire.status_code /\ wire.status_code < 300),
          has_error |-> FALSE, error |-> "",
          has_status |-> TRUE, status_code |-> wire.status_code,
          content_type |-> IF wire.json THEN "json" ELSE "text"]
  ELSE [SendRaised(NONE) EXCEPT
          !.has_error = TRUE,
          !.error = IF IsConnectionError(wire.kind) THEN "Connection error"
                    ELSE IF IsTimeout(wire.kind) THEN "Request timed out"
                    ELSE "str(e)"]

\* transport before any direct call.
NoTransport ==
  [calls |-> 0, method |-> "GET", wire |-> Http(200, TRUE),
   result |-> send_request("GET", Http(200, TRUE))]

\* The endpoints check_api_health probes, by endpoint_key, in list order.
HealthEndpoints ==
  <<"App_GetSoftwareVersion", "ConnectionSetup_GetIPAddressHistory",
    "TestConfiguration_GetCoilFilter">>

\* What one probed endpoint may do.
HealthWires == {Http(200, TRUE), Http(500, FALSE), Failure("ConnectionError")}

\* check(service, endpoint): success = response["response"].get("success",
\* False) and the entry written to health_results["endpoints"].
CheckSuccess(wire) ==
  LET r == send_request("GET", wire)
  IN  IF r.has_success THEN r.success ELSE FALSE

CheckEntry(wire) ==
  LET r == send_request("GET", wire)
  IN  [status |-> IF CheckSuccess(wire) THEN "ok" ELSE "error",
       status_code |-> IF r.has_status THEN r.status_code ELSE 0]

\* health_results["overall_status"] from success_count.
OverallStatus(success_count, n) ==
  IF success_count = n THEN "healthy"
  ELSE IF success_count > 0 THEN "degraded"
  ELSE "critical"

NoEntries == [i \in {} |-> CheckEntry(Http(200, TRUE))]

\* health before any check_api_health() call.
NoHealth ==
  [pc |-> "idle", parallel |-> FALSE,
   wires |-> [i \in 1..Len(HealthEndpoints) |-> Http(200, TRUE)],
   endpoints |-> NoEntries, successes |-> {}, overall_status |-> "unknown"]

\* verify before any verify_versions() call.
NoVerify == [pc |-> "idle", calls |-> 0, result |-> NONE]

\* verify_versions() left through its "raise": the exception of a handler call.
RaisedAttributeError == "raised:AttributeError"

\* ------------------------------------------------------- diagnostics sweep

\* Direct calls of run_diagnostics() followed.
MaxSweeps == 2

\* The requests of log_api_diagnostics(), in program order.
DiagnosticsLookups ==
  <<"App/GetSoftwareVersion", "ConnectionSetup/LatestFirmwareVersion",
    "ConnectionSetup/LatestEloadVersion", "ConnectionSetup/GetIPAddressHistory",
    "TestConfiguration/GetTestCaseList", "TestConfiguration/GetCoilFilter">>

\* The probes of check_api_health(), in list order.
HealthLookups ==
  <<"App/GetSoftwareVersion", "ConnectionSetup/GetIPAddressHistory",
    "TestConfiguration/GetCoilFilter">>

\* The requests of verify_versions(), in program order.
VersionLookups ==
  <<"App/GetSoftwareVersion", "ConnectionSetup/LatestFirmwareVersion",
    "ConnectionSetup/LatestEloadVersion", "ConnectionSetup/LatestShortFixtureVersion">>

\* The request of the last block of run_diagnostics().
ErrorLogLookups == <<"App/GetErrorLog">>

\* Every request of a sweep; a lookup is named by its position here.
SweepLookups == DiagnosticsLookups \o HealthLookups \o VersionLookups \o ErrorLogLookups

\* How a lookup may be answered: "ok" (2xx with the payload the code
\* expects), "transport" (a requests exception: the response carries "error"
\* and no "data"), "http_text" (a status outside 2xx with a text body: data
\* is that text), "json_null" (2xx with the JSON body null: data is None).
SweepFailures == {"transport", "http_text", "json_null"}

\* The answers of a sweep in which lookup bad (0: none) is answered by how.
AnswersWith(bad, how) ==
  [i \in 1..Len(SweepLookups) |-> IF i = bad THEN how ELSE "ok"]

\* log_api_diagnostics(): the three version requests, the IP history request
\* and "for entry in ip_data: entry.get(...)", which raises on a text and on
\* None; then the test-case and coil-filter requests and the log lines, of
\* which len(test_cases) raises on None.  answers: those of lookups 1..6.
log_api_diagnostics(answers) ==
  IF answers[4] \in {"http_text", "json_null"}
    THEN [issued |-> SubSeq(DiagnosticsLookups, 1, 4), raised |-> TRUE]
    ELSE [issued |-> DiagnosticsLookups, raised |-> answers[5] = "json_null"]

\* run_diagnostics(): four blocks, each in its own try/except Exception.
\* Without a handler no block sends a request (AttributeError, the
\* precondition error, a URL without scheme).  issued: the requests sent, in
\* order; entered: the blocks begun; raised: an exception left the call.
run_diagnostics(handler, answers) ==
  IF handler = NONE
    THEN [issued |-> <<>>,
          entered |-> <<"diagnostics", "health", "versions", "error_log">>,
          raised |-> FALSE]
    ELSE [issued |-> log_api_diagnostics(answers).issued
                       \o HealthLookups \o VersionLookups \o ErrorLogLookups,
          entered |-> <<"diagnostics", "health", "versions", "error_log">>,
          raised |-> FALSE]

\* sweep outside connect() and before any direct call of run_diagnostics().
\* ip_address, answer, diagnosed: locals of connect() (the address resolved,
\* what connect_to_test_equipment reported, run_diagnostics() returned).
NoSweep ==
  [ip_address |-> NONE, answer |-> "none", diagnosed |-> FALSE,
   calls |-> 0, bad |-> 0, how |-> "transport",
   issued |-> <<>>, entered |-> <<>>, raised |-> FALSE]

\* ------------------------------------------- update_system_state by threads

\* update_system_state() calls followed per calling thread.
MaxWriterCalls == 1

\* Reads of the snapshot by the responder followed.
MaxReads == 1

\* The threads that run _is_test_running(), and with it update_system_state:
\* the main thread (monitor loops of submit_test_list) and a thread that
\* calls stop_test_execution().
Writers == {"main", "stopper"}

Assign(field, value) == [field |-> field, value |-> value]

\* The assignments of the except branch of update_system_state.
ErrorWrites ==
  <<Assign("app_state", "ERROR"), Assign("connection_state", "ERROR"),
    Assign("test_case_name", NoneStr), Assign("test_status", NoneStr)>>

\* The assignments to self.system_state_data one update_system_state call
\* makes, in program order: app_state_dict.get raises before any of them;
\* test_status_dict.get raises after the first two.
Writes(app, status) ==
  IF ~app.dict THEN ErrorWrites
  ELSE LET first == <<Assign("app_state", Get(app.appState, "UNKNOWN")),
                      Assign("connection_state", Get(app.connectionState, "UNKNOWN"))>>
       IN  IF ~status.dict THEN first \o ErrorWrites
           ELSE IF status.has /\ ~status.null /\ status.text # <<>>
                   /\ StartsWithTest(status.text) /\ Len(Split(status.text)) >= 3
                  THEN first \o
                       <<Assign("test_case_name", SomeStr(Strip(Split(status.text)[2]))),
                         Assign("test_status",
                                SomeStr(Strip(Split(status.text)[Len(Split(status.text))])))>>
                  ELSE first

\* One assignment to an attribute of the snapshot.
Assigned(st, w) == [st EXCEPT ![w.field] = w.value]

\* A thread outside update_system_state.
NoWrite ==
  [calls |-> 0, pending |-> <<>>, app |-> AppEmpty, status |-> StatusNoKey]

NoWriters == [w \in Writers |-> NoWrite]

\* seen before any read: the snapshot the threads started from, and of the
\* last read of the responder the record it read from and the threads that
\* were inside update_system_state.
NoSeen ==
  [initial |-> InitialSystemState, reads |-> 0, snapshot |-> InitialSystemState,
   midway |-> {}]

\* ------------------------------------------------------------ pop-up logs

\* Status polls and responder ticks followed in the pop-up log specification.
MaxPolls == 2

MaxTicks == 2

\* Pop-up messages the application may show.
Messages == {"m1", "m2"}

\* The key save_message_by_test_case files a message under without a name.
OtherMessage == <<"Other_message">>

\* A JSON object without keys.
EmptyMap == [k \in {} |-> <<>>]

\* What a log file holds.  kind: "absent" (no file), "partial" (text
\* json.load rejects), "array" (a JSON array: list), "object" (a JSON
\* object: map, key -> list of messages).
NoFile == [kind |-> "absent", list |-> <<>>, map |-> EmptyMap]

PartialFile == [kind |-> "partial", list |-> <<>>, map |-> EmptyMap]

ArrayFile(l) == [kind |-> "array", list |-> l, map |-> EmptyMap]

ObjectFile(m) == [kind |-> "object", list |-> <<>>, map |-> m]

\* How "with open(name, 'w') as f: json.dump(value, f)" may end: written;
\* open() raises and the file is as before; the write raises after open()
\* truncated the file, which is left with a part of the text.
WriteOutcomes == {"ok", "open_fails", "partial"}

Written(file, value, outcome) ==
  CASE outcome = "ok" -> value
    [] outcome = "open_fails" -> file
    [] OTHER -> PartialFile

\* create_empty_json(): json.dump([]) into the flat file, then json.dump([])
\* into the per-test-case file, in one try block: a failure of the first
\* write skips the second.
create_empty_json(files, o1, o2) ==
  IF o1 # "ok"
    THEN [files EXCEPT !.flat = Written(files.flat, ArrayFile(<<>>), o1)]
    ELSE [flat |-> ArrayFile(<<>>),
          by_test |-> Written(files.by_test, ArrayFile(<<>>), o2)]

\* Mutant of save_only_message: a message the list already holds is not
\* appended again.
save_only_message_unique(file, message, outcome) ==
  IF file.kind \in {"partial", "object"} THEN file
  ELSE IF \E i \in 1..Len(file.list) : file.list[i] = message THEN file
  ELSE Written(file, ArrayFile(file.list \o <<message>>), outcome)

\* save_only_message(): load the list (a file json.load rejects or one that
\* holds no list raises, which is caught: nothing is written), append, write.
save_only_message(file, message, outcome) ==
  IF file.kind \in {"partial", "object"} THEN file
  ELSE Written(file, ArrayFile(file.list \o <<message>>), outcome)

\* test_case_name = self.system_state_data.test_case_name, "Other_message"
\* if it is None or empty.
TestCaseKey(name) == IF name.some /\ name.s # <<>> THEN name.s ELSE OtherMessage

\* The mapping save_message_by_test_case starts from: the object in the file,
\* {} for no file, a file json.load rejects or a non-object.
LoadedMap(file) == IF file.kind = "object" THEN file.map ELSE EmptyMap

\* messages_by_test[test_case_name].append(message), the list created first
\* if the key is new.
Appended(m, key, message) ==
  [k \in DOMAIN m \cup {key} |->
     IF k = key
       THEN (IF key \in DOMAIN m THEN m[key] ELSE <<>>) \o <<message>>
       ELSE m[k]]

\* Mutant of save_message_by_test_case: the file is not loaded, the mapping
\* written holds the new message only.
save_message_by_test_case_fresh(file, name, message, outcome) ==
  Written(file, ObjectFile(Appended(EmptyMap, TestCaseKey(name), message)), outcome)

\* save_message_by_test_case(): load, append under the key, write.
save_message_by_test_case(file, name, message, outcome) ==
  Written(file, ObjectFile(Appended(LoadedMap(file), TestCaseKey(name), message)), outcome)

\* response["response"] of get_message_box() as _handle_connection_popup
\* reads it.  kind: "raises" (the call raised), "failed" (no truthy success),
\* "no_dialog" (data missing, None or empty), "not_dict" (data is a non-empty
\* value without .get), "empty_message" (no truthy "message"), "dialog".
\* An optional field of the dialog: absent, or present with value v.
NoInt == [has |-> FALSE, v |-> 0]

NoText == [has |-> FALSE, v |-> ""]

Has(v) == [has |-> TRUE, v |-> v]

\* popup_data.get(key, default)
GetField(field, default) == IF field.has THEN field.v ELSE default

NoDialog(kind) == [kind |-> kind, message |-> "", popID |-> NoInt, title |-> NoText]

Dialog(message, popID, title) ==
  [kind |-> "dialog", message |-> message, popID |-> popID, title |-> title]

Fetched ==
  {NoDialog(k) : k \in {"raises", "failed", "no_dialog", "not_dict", "empty_message"}}
    \cup {Dialog("m1", Has(7), Has("Calibration")), Dialog("m2", NoInt, NoText)}

\* popupdata of _handle_connection_popup (the fields that vary or that the
\* application acts on).
PopupResponse(d) ==
  [userTextBoxInput |-> "", responseButton |-> "Ok", shouldTextBoxBeAdded |-> FALSE,
   popID |-> GetField(d.popID, 23), title |-> GetField(d.title, "GRL Test Solution"),
   message |-> ""]

\* The files __init__ leaves when both writes succeed.
FreshFiles == [flat |-> ArrayFile(<<>>), by_test |-> ArrayFile(<<>>)]

\* popup_call before any tick: how the two writes of create_empty_json ended
\* and the files it found, status polls and ticks made, and of the last tick:
\* what was fetched, the snapshot and the files it found, how its two writes
\* ended ("none": not attempted) and the responses it submitted; over all
\* ticks: how many fetched a dialog with a message, how many responses were
\* submitted, whether a write of a log file failed.
NoPopupCall ==
  [created |-> <<"ok", "ok">>, found |-> FreshFiles,
   polls |-> 0, ticks |-> 0, fetched |-> NoDialog("no_dialog"),
   snapshot |-> InitialSystemState, before |-> FreshFiles,
   writes |-> <<"none", "none">>, puts |-> <<>>,
   dialogs |-> 0, acks |-> 0, write_failed |-> FALSE]

\* The pop-up logs of a constructed client that has handled no pop-up; no
\* direct handler call, no health check, no verify_versions() and no
\* update_system_state() in progress.
PopQuiescent ==
  /\ popup_files = FreshFiles
  /\ popup_call = NoPopupCall
  /\ transport = NoTransport
  /\ health = NoHealth
  /\ verify = NoVerify
  /\ writers = NoWriters
  /\ seen = NoSeen
  /\ sweep = NoSweep

\* ------------------------------------------------- responder thread start

\* The id the next threading.Thread(...) gets: the lowest one not yet used.
NextThread == CHOOSE t \in Threads : thread[t] = "none" /\ \A u \in 1..(t - 1) : thread[u] # "none"

CanStartThread == \E t \in Threads : thread[t] = "none"

\* ------------------------------------------------------- submit_test_list

\* A call of submit_test_list begins with fresh locals (test_started, the
\* start_time of the wait) and a fresh record of what this call observed.
NewCallHistory ==
  /\ test_started' = FALSE
  /\ waited' = 0
  /\ force_stops' = NoForceStops
  /\ run_checks' = 0
  /\ last_poll' = NoPoll
  /\ ever_running' = FALSE
  /\ stop_set_in_run' = FALSE
  /\ scenario' = 0

\* Mutant of submit_test_list_call: stop_requested is not cleared.
submit_test_list_call_keeps_stop ==
  /\ pc = "idle"
  /\ \E test_list \in {"empty", "TC1"} :
       IF api_handler = NONE
         THEN /\ result' = RaisedPrecondition
              /\ NewCallHistory
              /\ UNCHANGED <<clientVars, pc, popup_thread, thread, loopers>>
       ELSE IF test_list = "empty"
         THEN /\ result' = RetEmptyList
              /\ NewCallHistory
              /\ UNCHANGED <<clientVars, pc, popup_thread, thread, loopers>>
       ELSE /\ CanStartThread
            /\ popup_thread_active' = TRUE
            /\ popup_thread' = NextThread
            /\ thread' = [thread EXCEPT ![NextThread] = "check"]
            /\ loopers' = {}
            /\ pc' = "submit_post"
            /\ result' = NONE
            /\ NewCallHistory
            /\ UNCHANGED <<api_handler, controller, base_url, ip_address,
                           stop_requested, system_state_data>>
  /\ UNCHANGED <<stopperVars, launched_ok, lifecycle_calls, probe, extVars>>

\* submit_test_list(test_list) up to popup_thread.start(): the precondition,
\* the empty-list return, the two flags and the new responder thread.
submit_test_list_call ==
  /\ pc = "idle"
  /\ \E test_list \in {"empty", "TC1"} :
       IF api_handler = NONE
         THEN /\ result' = RaisedPrecondition
              /\ NewCallHistory
              /\ UNCHANGED <<clientVars, pc, popup_thread, thread, loopers>>
       ELSE IF test_list = "empty"
         THEN /\ result' = RetEmptyList
              /\ NewCallHistory
              /\ UNCHANGED <<clientVars, pc, popup_thread, thread, loopers>>
       ELSE /\ CanStartThread
            /\ popup_thread_active' = TRUE
            /\ stop_requested' = FALSE
            /\ popup_thread' = NextThread
            /\ thread' = [thread EXCEPT ![NextThread] = "check"]
            /\ loopers' = {}
            /\ pc' = "submit_post"
            /\ result' = NONE
            /\ NewCallHistory
            /\ UNCHANGED <<api_handler, controller, base_url, ip_address, system_state_data>>
  /\ UNCHANGED <<stopperVars, launched_ok, lifecycle_calls, probe, extVars>>

\* Mutant of submit_test_list_post: the failed submission is logged but the
\* return is missing, so monitoring goes on.
submit_test_list_post_no_return ==
  /\ pc = "submit_post"
  /\ \E outcome \in {"success", "failed", "raises"} :
       CASE outcome = "success" -> /\ pc' = "wait_check"
                                   /\ result' = result
         [] outcome = "failed"  -> /\ pc' = "wait_check"
                                   /\ result' = RetSubmitFailed
         [] outcome = "raises"  -> /\ pc' = "submit_finally"
                                   /\ result' = RetException
  /\ UNCHANGED <<clientVars, test_started, waited, popup_thread, thread, stopperVars,
                 runVars, loopers, launched_ok, lifecycle_calls, probe, extVars>>

\* post_test_list_to_execute and the check of its success flag.  "raises":
\* an exception send_request does not catch (it catches RequestException only).
submit_test_list_post ==
  /\ pc = "submit_post"
  /\ \E outcome \in {"success", "failed", "raises"} :
       CASE outcome = "success" -> /\ pc' = "wait_check"
                                   /\ result' = result
         [] outcome = "failed"  -> /\ pc' = "submit_finally"
                                   /\ result' = RetSubmitFailed
         [] outcome = "raises"  -> /\ pc' = "submit_finally"
                                   /\ result' = RetException
  /\ UNCHANGED <<clientVars, test_started, waited, popup_thread, thread, stopperVars,
                 runVars, loopers, launched_ok, lifecycle_calls, probe, extVars>>

\* Mutant of submit_test_list_wait_check: "if" for "while", one poll only.
submit_test_list_wait_check_once ==
  /\ pc = "wait_check"
  /\ IF waited = 0 /\ ~stop_requested
       THEN pc' = "wait_poll"
       ELSE pc' = "wait_done"
  /\ UNCHANGED <<clientVars, result, test_started, waited, popup_thread, thread,
                 stopperVars, runVars, loopers, launched_ok, lifecycle_calls, probe, extVars>>

\* while time.time() - start_time < timeout and not self.stop_requested
\* and, once the loop is left without a break, the test that follows it:
\* if not test_started and not self.stop_requested.
submit_test_list_wait_check ==
  /\ pc = "wait_check"
  /\ IF waited < StartTimeout /\ ~stop_requested
       THEN pc' = "wait_poll"
       ELSE pc' = "wait_done"
  /\ UNCHANGED <<clientVars, result, test_started, waited, popup_thread, thread,
                 stopperVars, runVars, loopers, launched_ok, lifecycle_calls, probe, extVars>>

\* The body of the wait loop: _is_test_running(), break or time.sleep(1).
submit_test_list_wait_poll ==
  /\ pc = "wait_poll"
  /\ \E p \in PollInputs, d \in PollSeconds :
       LET running == is_test_running(api_handler, p[1], p[2])
           elapsed == waited + d + StartPollSleep
       IN  /\ system_state_data' =
                SnapshotAfterPoll(api_handler, system_state_data, p[1], p[2])
           /\ last_poll' = [polled |-> TRUE, app |-> p[1], status |-> p[2],
                            running |-> running]
           /\ ever_running' = (ever_running \/ running)
           /\ scenario' = ScenarioStep(scenario, p[1], p[2])
           /\ IF running
                THEN /\ test_started' = TRUE
                     /\ pc' = "run_poll"
                     /\ waited' = 0
                ELSE /\ test_started' = test_started
                     /\ pc' = "wait_check"
                     /\ waited' = IF elapsed > StartTimeout THEN StartTimeout ELSE elapsed
  /\ UNCHANGED <<api_handler, controller, base_url, ip_address, popup_thread_active,
                 stop_requested, result, popup_thread, thread, stopperVars, force_stops,
                 run_checks, stop_set_in_run, loopers, launched_ok, lifecycle_calls, probe, extVars>>

\* Mutant of submit_test_list_wait_done: the warning is logged but not
\* returned, so the RUNNING loop is entered for a test that never started.
submit_test_list_wait_done_no_return ==
  /\ pc = "wait_done"
  /\ result' = result
  /\ pc' = "run_poll"
  /\ waited' = 0
  /\ UNCHANGED <<clientVars, test_started, popup_thread, thread, stopperVars,
                 runVars, loopers, launched_ok, lifecycle_calls, probe, extVars>>

\* if not test_started and not self.stop_requested: return the warning.
\* (start_time is not read after the wait loop: waited is cleared.)
submit_test_list_wait_done ==
  /\ pc = "wait_done"
  /\ IF ~test_started /\ ~stop_requested
       THEN /\ result' = RetWarning
            /\ pc' = "submit_finally"
       ELSE /\ result' = result
            /\ pc' = "run_poll"
  /\ waited' = 0
  /\ UNCHANGED <<clientVars, test_started, popup_thread, thread, stopperVars,
                 runVars, loopers, launched_ok, lifecycle_calls, probe, extVars>>

\* while self._is_test_running() ...: the poll of the RUNNING loop.
submit_test_list_run_poll ==
  /\ pc = "run_poll"
  /\ run_checks < MaxRunChecks
  /\ \E p \in PollInputs :
       LET running == is_test_running(api_handler, p[1], p[2])
       IN  /\ system_state_data' =
                SnapshotAfterPoll(api_handler, system_state_data, p[1], p[2])
           /\ last_poll' = [polled |-> TRUE, app |-> p[1], status |-> p[2],
                            running |-> running]
           /\ ever_running' = (ever_running \/ running)
           /\ scenario' = ScenarioStep(scenario, p[1], p[2])
           /\ pc' = IF running THEN "run_check_stop" ELSE "run_done"
  /\ run_checks' = run_checks + 1
  /\ UNCHANGED <<api_handler, controller, base_url, ip_address, popup_thread_active,
                 stop_requested, result, test_started, waited, popup_thread, thread,
                 stopperVars, force_stops, stop_set_in_run, loopers, launched_ok,
                 lifecycle_calls, probe, extVars>>

\* Mutant of submit_test_list_run_check_stop: "if" for "while", the loop is
\* left after one poll that still saw the test running.
submit_test_list_run_check_stop_once ==
  /\ pc = "run_check_stop"
  /\ pc' = "run_done"
  /\ UNCHANGED <<clientVars, result, test_started, waited, popup_thread, thread,
                 stopperVars, runVars, loopers, launched_ok, lifecycle_calls, probe, extVars>>

\* Mutant of submit_test_list_run_check_stop: the RUNNING loop does not look
\* at the flag.
submit_test_list_run_check_stop_deaf ==
  /\ pc = "run_check_stop"
  /\ pc' = "run_poll"
  /\ UNCHANGED <<clientVars, result, test_started, waited, popup_thread, thread,
                 stopperVars, runVars, loopers, launched_ok, lifecycle_calls, probe, extVars>>

\* ... and not self.stop_requested: time.sleep(0.5) and poll again, or leave.
submit_test_list_run_check_stop ==
  /\ pc = "run_check_stop"
  /\ pc' = IF stop_requested THEN "run_done" ELSE "run_poll"
  /\ UNCHANGED <<clientVars, result, test_started, waited, popup_thread, thread,
                 stopperVars, runVars, loopers, launched_ok, lifecycle_calls, probe, extVars>>

\* Mutant of submit_test_list_run_done: completion first, the flag is looked
\* at only if the last poll still saw the test running.
submit_test_list_run_done_completion_first ==
  /\ pc = "run_done"
  /\ IF stop_requested /\ last_poll.running
       THEN /\ pc' = "cancel"
            /\ result' = result
       ELSE /\ pc' = "submit_finally"
            /\ result' = RetSuccess
  /\ UNCHANGED <<clientVars, test_started, waited, popup_thread, thread, stopperVars,
                 runVars, loopers, launched_ok, lifecycle_calls, probe, extVars>>

\* if self.stop_requested: cancel; else "Test run complete", {success: True}.
submit_test_list_run_done ==
  /\ pc = "run_done"
  /\ IF stop_requested
       THEN /\ pc' = "cancel"
            /\ result' = result
       ELSE /\ pc' = "submit_finally"
            /\ result' = RetSuccess
  /\ UNCHANGED <<clientVars, test_started, waited, popup_thread, thread, stopperVars,
                 runVars, loopers, launched_ok, lifecycle_calls, probe, extVars>>

\* self._cancel_running_test(): one post_force_stop, whatever it answers,
\* then return the cancelled result.
submit_test_list_cancel ==
  /\ pc = "cancel"
  /\ force_stops' = [force_stops EXCEPT !.monitor = @ + 1]
  /\ result' = RetCancelled
  /\ pc' = "submit_finally"
  /\ UNCHANGED <<clientVars, test_started, waited, popup_thread, thread, stopperVars,
                 run_checks, last_poll, ever_running, stop_set_in_run, scenario, loopers,
                 launched_ok, lifecycle_calls, probe, extVars>>

\* Mutant of submit_test_list_finally: the flag is cleared on the success
\* path only, not in a finally.
submit_test_list_finally_on_success ==
  /\ pc = "submit_finally"
  /\ popup_thread_active' = IF result = RetSuccess THEN FALSE ELSE popup_thread_active
  /\ pc' = "submit_join"
  /\ UNCHANGED <<api_handler, controller, base_url, ip_address, stop_requested,
                 system_state_data, result, test_started, waited, popup_thread, thread,
                 stopperVars, runVars, loopers, launched_ok, lifecycle_calls, probe, extVars>>

\* finally: self.popup_thread_active = False
submit_test_list_finally ==
  /\ pc = "submit_finally"
  /\ popup_thread_active' = FALSE
  /\ pc' = "submit_join"
  /\ UNCHANGED <<api_handler, controller, base_url, ip_address, stop_requested,
                 system_state_data, result, test_started, waited, popup_thread, thread,
                 stopperVars, runVars, loopers, launched_ok, lifecycle_calls, probe, extVars>>

\* popup_thread.join(timeout=2): returns when the thread has exited, or after
\* 2 s while the thread is blocked in a request (its sleep is 0.5 s).
JoinReturns(t) == thread[t] = "exited" \/ thread[t] \in InRequest

submit_test_list_join ==
  /\ pc = "submit_join"
  /\ JoinReturns(popup_thread)
  /\ pc' = "idle"
  /\ popup_thread' = 0
  /\ UNCHANGED <<clientVars, result, test_started, waited, thread, stopperVars, runVars,
                 loopers, launched_ok, lifecycle_calls, probe, extVars>>


\* ---------------------------------------------------- stop entry points

\* stop_test_run(): set the flag, nothing else.
stop_test_run ==
  /\ stopper_pc = "idle"
  /\ stop_calls < MaxStopCalls
  /\ stop_calls' = stop_calls + 1
  /\ stop_requested' = TRUE
  /\ stop_set_in_run' = TRUE
  /\ stopper_result' = NONE
  /\ stopper_saw' = "none"
  /\ UNCHANGED <<api_handler, controller, base_url, ip_address, popup_thread_active,
                 system_state_data, mainVars, thread, stopper_pc, force_stops, run_checks,
                 last_poll, ever_running, scenario, loopers, launched_ok, lifecycle_calls, probe, extVars>>

\* Mutant of stop_test_execution_check: the flag is set before the test of
\* _is_test_running().
stop_test_execution_check_flag_first ==
  /\ stopper_pc = "idle"
  /\ stop_calls < MaxStopCalls
  /\ stop_calls' = stop_calls + 1
  /\ \E p \in PollInputs :
       LET running == is_test_running(api_handler, p[1], p[2])
       IN  /\ system_state_data' =
                SnapshotAfterPoll(api_handler, system_state_data, p[1], p[2])
           /\ stopper_saw' = IF running THEN "running" ELSE "not running"
           /\ stop_requested' = TRUE
           /\ stop_set_in_run' = TRUE
           /\ IF running
                THEN /\ stopper_pc' = "exec_cancel"
                     /\ stopper_result' = NONE
                ELSE /\ stopper_pc' = "idle"
                     /\ stopper_result' = "False"
  /\ UNCHANGED <<api_handler, controller, base_url, ip_address, popup_thread_active,
                 mainVars, thread, force_stops, run_checks, last_poll, ever_running,
                 scenario, loopers, launched_ok, lifecycle_calls, probe, extVars>>

\* stop_test_execution() up to the force-stop: the status poll, the early
\* return False, or self.stop_requested = True.
stop_test_execution_check ==
  /\ stopper_pc = "idle"
  /\ stop_calls < MaxStopCalls
  /\ stop_calls' = stop_calls + 1
  /\ \E p \in PollInputs :
       LET running == is_test_running(api_handler, p[1], p[2])
       IN  /\ system_state_data' =
                SnapshotAfterPoll(api_handler, system_state_data, p[1], p[2])
           /\ stopper_saw' = IF running THEN "running" ELSE "not running"
           /\ IF running
                THEN /\ stop_requested' = TRUE
                     /\ stop_set_in_run' = TRUE
                     /\ stopper_pc' = "exec_cancel"
                     /\ stopper_result' = NONE
                ELSE /\ stop_requested' = stop_requested
                     /\ stop_set_in_run' = stop_set_in_run
                     /\ stopper_pc' = "idle"
                     /\ stopper_result' = "False"
  /\ UNCHANGED <<api_handler, controller, base_url, ip_address, popup_thread_active,
                 mainVars, thread, force_stops, run_checks, last_poll, ever_running,
                 scenario, loopers, launched_ok, lifecycle_calls, probe, extVars>>

\* return self._cancel_running_test(): post_force_stop and its verdict.
stop_test_execution_cancel ==
  /\ stopper_pc = "exec_cancel"
  /\ force_stops' = [force_stops EXCEPT !.stopper = @ + 1]
  /\ \E answer \in {"True", "False"} : stopper_result' = answer
  /\ stopper_pc' = "idle"
  /\ UNCHANGED <<clientVars, mainVars, thread, stop_calls, stopper_saw, run_checks,
                 last_poll, ever_running, stop_set_in_run, scenario, loopers, launched_ok,
                 lifecycle_calls, probe, extVars>>

\* ------------------------------------------------------ pop-up responder

\* _handle_popups: while self.popup_thread_active, and the first test of
\* _handle_connection_popup (no handler: return, sleep, test again).
handle_popups_check(t) ==
  /\ thread[t] = "check"
  /\ IF popup_thread_active
       THEN /\ loopers' = loopers \cup {t}
            /\ thread' = [thread EXCEPT ![t] = IF api_handler = NONE THEN "check" ELSE "fetch"]
       ELSE /\ loopers' = loopers
            /\ thread' = [thread EXCEPT ![t] = "exited"]
  /\ UNCHANGED <<clientVars, mainVars, stopperVars, runVars, launched_ok, lifecycle_calls, probe, extVars>>

\* get_message_box() answers: nothing to handle (failure, no dialog, empty
\* message), or a dialog, which is acknowledged next unless the handler is gone.
handle_popups_fetch(t) ==
  /\ thread[t] = "fetch"
  /\ \E dialog \in BOOLEAN :
       thread' = [thread EXCEPT ![t] =
                    IF dialog /\ api_handler # NONE THEN "respond" ELSE "check"]
  /\ UNCHANGED <<clientVars, mainVars, stopperVars, runVars, loopers, launched_ok,
                 lifecycle_calls, probe, extVars>>

\* put_message_box_response() answers (or raises, which is caught); sleep 0.5.
handle_popups_respond(t) ==
  /\ thread[t] = "respond"
  /\ thread' = [thread EXCEPT ![t] = "check"]
  /\ UNCHANGED <<clientVars, mainVars, stopperVars, runVars, loopers, launched_ok,
                 lifecycle_calls, probe, extVars>>

\* ----------------------------------------------------------------- connect

\* What connect() and run_diagnostics() leave alone.
otherExtVars ==
  <<launcher, lifecycle_log, update_call, popVars, apiVars, tornVars, configured>>

\* Mutant of connect_call: the responder thread is started before the
\* address is looked at.
connect_call_thread_first ==
  /\ pc = "idle"
  /\ \E ip \in {NONE, "192.168.0.10"} :
       IF api_handler = NONE
         THEN /\ result' = RaisedPrecondition
              /\ UNCHANGED <<popup_thread_active, pc, popup_thread, thread, loopers, sweep>>
       ELSE /\ CanStartThread
            /\ popup_thread_active' = TRUE
            /\ popup_thread' = NextThread
            /\ thread' = [thread EXCEPT ![NextThread] = "check"]
            /\ loopers' = {}
            /\ IF ip = NONE /\ ip_address = NONE
                 THEN /\ result' = RetNoIp
                      /\ UNCHANGED <<pc, sweep>>
                 ELSE /\ sweep' = [sweep EXCEPT
                                     !.ip_address = IF ip = NONE THEN ip_address ELSE ip,
                                     !.answer = "none", !.diagnosed = FALSE]
                      /\ pc' = "connect_request"
                      /\ result' = NONE
  /\ UNCHANGED <<api_handler, controller, base_url, ip_address, stop_requested,
                 system_state_data, test_started, waited, stopperVars, runVars,
                 launched_ok, lifecycle_calls, probe, otherExtVars>>

\* connect(ip_address) up to popup_thread.start().
connect_call ==
  /\ pc = "idle"
  /\ \E ip \in {NONE, "192.168.0.10"} :
       IF api_handler = NONE
         THEN /\ result' = RaisedPrecondition
              /\ UNCHANGED <<popup_thread_active, pc, popup_thread, thread, loopers, sweep>>
       ELSE IF ip = NONE /\ ip_address = NONE
         THEN /\ result' = RetNoIp
              /\ UNCHANGED <<popup_thread_active, pc, popup_thread, thread, loopers, sweep>>
       ELSE /\ CanStartThread
            /\ popup_thread_active' = TRUE
            /\ popup_thread' = NextThread
            /\ thread' = [thread EXCEPT ![NextThread] = "check"]
            /\ loopers' = {}
            /\ sweep' = [sweep EXCEPT
                           !.ip_address = IF ip = NONE THEN ip_address ELSE ip,
                           !.answer = "none", !.diagnosed = FALSE]
            /\ pc' = "connect_request"
            /\ result' = NONE
  /\ UNCHANGED <<api_handler, controller, base_url, ip_address, stop_requested,
                 system_state_data, test_started, waited, stopperVars, runVars,
                 launched_ok, lifecycle_calls, probe, otherExtVars>>

\* connect_to_test_equipment(ip_address) and the check of its success flag.
connect_request ==
  /\ pc = "connect_request"
  /\ \E outcome \in {"success", "failed", "raises"} :
       /\ sweep' = [sweep EXCEPT !.answer = outcome]
       /\ CASE outcome = "success" -> /\ pc' = "connect_diagnostics"
                                      /\ result' = result
            [] outcome = "failed"  -> /\ pc' = "connect_finally"
                                      /\ result' = RetConnectFailed
            [] outcome = "raises"  -> /\ pc' = "connect_finally"
                                      /\ result' = RetException
  /\ UNCHANGED <<clientVars, test_started, waited, popup_thread, thread, stopperVars,
                 runVars, loopers, launched_ok, lifecycle_calls, probe, otherExtVars>>

\* Mutant of connect_diagnostics: a lookup of the sweep that fails makes
\* connect() report the failure.
connect_diagnostics_reports_sweep ==
  /\ pc = "connect_diagnostics"
  /\ \E bad \in 0..Len(SweepLookups), how \in SweepFailures :
       result' = IF bad # 0 THEN RetException ELSE RetConnected
  /\ sweep' = [sweep EXCEPT !.diagnosed = TRUE]
  /\ pc' = "connect_finally"
  /\ UNCHANGED <<clientVars, test_started, waited, popup_thread, thread, stopperVars,
                 runVars, loopers, launched_ok, lifecycle_calls, probe, otherExtVars>>

\* self.run_diagnostics(), whatever its lookups are answered, then return
\* success; an exception out of run_diagnostics() would reach the except
\* clause of connect().
connect_diagnostics ==
  /\ pc = "connect_diagnostics"
  /\ \E bad \in 0..Len(SweepLookups), how \in SweepFailures :
       result' = IF run_diagnostics(api_handler, AnswersWith(bad, how)).raised
                   THEN RetException
                   ELSE RetConnected
  /\ sweep' = [sweep EXCEPT !.diagnosed = TRUE]
  /\ pc' = "connect_finally"
  /\ UNCHANGED <<clientVars, test_started, waited, popup_thread, thread, stopperVars,
                 runVars, loopers, launched_ok, lifecycle_calls, probe, otherExtVars>>

\* finally: self.popup_thread_active = False
connect_finally ==
  /\ pc = "connect_finally"
  /\ popup_thread_active' = FALSE
  /\ pc' = "connect_join"
  /\ UNCHANGED <<api_handler, controller, base_url, ip_address, stop_requested,
                 system_state_data, result, test_started, waited, popup_thread, thread,
                 stopperVars, runVars, loopers, launched_ok, lifecycle_calls, probe, extVars>>

\* popup_thread.join(timeout=2), then the return: the locals are gone.
connect_join ==
  /\ pc = "connect_join"
  /\ JoinReturns(popup_thread)
  /\ pc' = "idle"
  /\ popup_thread' = 0
  /\ sweep' = [sweep EXCEPT !.ip_address = NONE, !.answer = "none", !.diagnosed = FALSE]
  /\ UNCHANGED <<clientVars, result, test_started, waited, thread, stopperVars, runVars,
                 loopers, launched_ok, lifecycle_calls, probe, otherExtVars>>

\* ------------------------------------------------------ launch / disconnect

\* WebAppController.__del__ of a controller the client drops (assignment of
\* a new one, or of None): stop_process() on a subprocess still alive.  The
\* finalizer runs at the drop under reference counting, later or never
\* otherwise.
FinalizerStops(process) ==
  IF process = "alive" THEN {0, 1} ELSE {0}

\* What start_and_get_url leaves behind, the call taken as a whole: a URL or
\* None, and the controller's subprocess (none started, alive, exited).
StartOutcomes == {"url", "no url", "raises"}

\* launch_app() through start_and_get_url and, with a URL, GRLApiHandler(...).
launch_app_start ==
  /\ pc = "idle"
  /\ lifecycle_calls < MaxLifecycleCalls
  /\ lifecycle_calls' = lifecycle_calls + 1
  /\ controller' = "WebAppController"
  /\ \E outcome \in StartOutcomes, process \in {"none", "alive", "exited"},
        finalized \in FinalizerStops(launcher.process) :
       /\ launcher' =
            [NewController("8080") EXCEPT
               !.process = process, !.calls = 1,
               !.h = [NoCallHistory EXCEPT
                        !.op = "start",
                        !.popens = IF process = "none" THEN 0 ELSE 1,
                        !.ret = CASE outcome = "url" -> web_url("8080")
                                  [] outcome = "no url" -> NONE
                                  [] outcome = "raises" -> "raised"]]
       /\ lifecycle_log' =
            [lifecycle_log EXCEPT !.last = "launch_app",
                                  !.got_url = (outcome = "url"),
                                  !.version_ok = FALSE,
                                  !.repeated = FALSE,
                                  !.finalizer_stops = @ + finalized,
                                  !.orphans =
                                     IF launcher.process = "alive" /\ finalized = 0
                                       THEN @ + 1 ELSE @]
       /\ CASE outcome = "url"    -> /\ base_url' = "http://localhost:port"
                                     /\ api_handler' = "GRLApiHandler"
                                     /\ pc' = "launch_verify"
                                     /\ result' = NONE
            [] outcome = "no url" -> /\ base_url' = NONE
                                     /\ api_handler' = api_handler
                                     /\ pc' = "idle"
                                     /\ result' = "False"
            [] outcome = "raises" -> /\ base_url' = base_url
                                     /\ api_handler' = api_handler
                                     /\ pc' = "idle"
                                     /\ result' = "False"
  /\ UNCHANGED <<ip_address, popup_thread_active, stop_requested, system_state_data,
                 test_started, waited, popup_thread, thread, stopperVars, runVars, loopers,
                 launched_ok, probe, update_call, popVars, apiVars, tornVars, sweep, configured>>

\* Mutant of launch_app_verify: the version request is sent but its result
\* is not looked at.
launch_app_verify_unchecked ==
  /\ pc = "launch_verify"
  /\ \E success \in BOOLEAN :
       /\ result' = "True"
       /\ launched_ok' = TRUE
       /\ lifecycle_log' = [lifecycle_log EXCEPT !.version_ok = success]
  /\ pc' = "idle"
  /\ UNCHANGED <<clientVars, test_started, waited, popup_thread, thread, stopperVars,
                 runVars, loopers, lifecycle_calls, probe, launcher, update_call, popVars, apiVars, tornVars, sweep, configured>>

\* get_software_version() and the verdict of launch_app.
launch_app_verify ==
  /\ pc = "launch_verify"
  /\ \E success \in BOOLEAN :
       /\ result' = IF success THEN "True" ELSE "False"
       /\ launched_ok' = (launched_ok \/ success)
       /\ lifecycle_log' = [lifecycle_log EXCEPT !.version_ok = success]
  /\ pc' = "idle"
  /\ UNCHANGED <<clientVars, test_started, waited, popup_thread, thread, stopperVars,
                 runVars, loopers, lifecycle_calls, probe, launcher, update_call, popVars, apiVars, tornVars, sweep, configured>>

\* Mutant of disconnect: api_handler.close() outside a try, its exception
\* ends the call.
disconnect_unguarded ==
  /\ pc = "idle"
  /\ lifecycle_calls < MaxLifecycleCalls
  /\ lifecycle_calls' = lifecycle_calls + 1
  /\ popup_thread_active' = FALSE
  /\ \E close_raises \in BOOLEAN, stop_fails \in BOOLEAN,
        finalized \in FinalizerStops(launcher.process) :
       IF api_handler # NONE /\ close_raises
         THEN /\ result' = "raised"
              /\ lifecycle_log' =
                   [lifecycle_log EXCEPT !.last = "disconnect",
                                         !.repeated = (lifecycle_log.last = "disconnect"),
                                         !.closes = @ + 1, !.close_failed = TRUE]
              /\ UNCHANGED <<api_handler, controller, base_url, launcher, launched_ok>>
         ELSE /\ result' = NONE
              /\ api_handler' = NONE
              /\ controller' = NONE
              /\ base_url' = NONE
              /\ launcher' = NoController
              /\ launched_ok' = FALSE
              /\ lifecycle_log' =
                   [lifecycle_log EXCEPT
                      !.last = "disconnect",
                      !.repeated = (lifecycle_log.last = "disconnect"),
                      !.closes = IF api_handler # NONE THEN @ + 1 ELSE @,
                      !.close_failed = IF api_handler # NONE THEN FALSE ELSE @,
                      !.stops = IF controller # NONE THEN @ + 1 ELSE @,
                      !.stop_failed = IF controller # NONE THEN stop_fails ELSE @,
                      !.finalizer_stops =
                         IF controller # NONE /\ stop_fails THEN @ + finalized ELSE @,
                      !.orphans =
                         IF controller # NONE /\ stop_fails
                               /\ launcher.process = "alive" /\ finalized = 0
                           THEN @ + 1 ELSE @]
  /\ UNCHANGED <<ip_address, stop_requested, system_state_data, pc, test_started, waited,
                 popup_thread, thread, stopperVars, runVars, loopers, probe, update_call, popVars, apiVars, tornVars, sweep, configured>>

\* disconnect(): the flag; api_handler.close() in a try and the handler
\* cleared; controller.stop_process() in a try and the controller cleared
\* (its finalizer may stop a subprocess that stop_process left alive); the
\* base URL cleared.
disconnect ==
  /\ pc = "idle"
  /\ lifecycle_calls < MaxLifecycleCalls
  /\ lifecycle_calls' = lifecycle_calls + 1
  /\ popup_thread_active' = FALSE
  /\ api_handler' = NONE
  /\ controller' = NONE
  /\ base_url' = NONE
  /\ result' = NONE
  /\ launched_ok' = FALSE
  /\ launcher' = NoController
  /\ \E close_raises \in BOOLEAN, stop_fails \in BOOLEAN,
        finalized \in FinalizerStops(launcher.process) :
       lifecycle_log' =
         [lifecycle_log EXCEPT
            !.last = "disconnect",
            !.repeated = (lifecycle_log.last = "disconnect"),
            !.closes = IF api_handler # NONE THEN @ + 1 ELSE @,
            !.close_failed = IF api_handler # NONE THEN close_raises ELSE @,
            !.stops = IF controller # NONE THEN @ + 1 ELSE @,
            !.stop_failed = IF controller # NONE THEN stop_fails ELSE @,
            !.finalizer_stops =
               IF controller # NONE /\ stop_fails THEN @ + finalized ELSE @,
            !.orphans =
               IF controller # NONE /\ stop_fails
                     /\ launcher.process = "alive" /\ finalized = 0
                 THEN @ + 1 ELSE @]
  /\ UNCHANGED <<ip_address, stop_requested, system_state_data, pc, test_started, waited,
                 popup_thread, thread, stopperVars, runVars, loopers, probe, update_call, popVars, apiVars, tornVars, sweep, configured>>

\* ------------------------------------ WebAppController.start_and_get_url

\* self.max_connection_attempts, self.connection_timeout of a client whose
\* config.json repeats the defaults of WebAppController.__init__.
ControllerDefaults ==
  [max_connection_attempts |-> max_connection_attempts,
   connection_timeout |-> connection_timeout]

\* Values config.json may give for common.max_connection_attempts and
\* common.connection_timeout: below, at and above the controller's defaults.
ConfiguredAttempts == {2, 3, 5}

ConfiguredTimeouts == {10, 30, 60}

ConfiguredCommon ==
  [max_connection_attempts : ConfiguredAttempts, connection_timeout : ConfiguredTimeouts]

\* Everything but the launcher.
nonLauncherVars ==
  <<clientVars, mainVars, thread, stopperVars, runVars, loopers, launched_ok,
    lifecycle_calls, probe, lifecycle_log, update_call, popVars, apiVars, tornVars, sweep, configured>>

\* _check_application_running(): a known port, a listener on it (the bind
\* fails) and a GET answered by one of the endpoints.
check_application_running(known_port, listener, answers) ==
  /\ known_port # NONE
  /\ listener
  /\ \E i \in 1..Len(Endpoints) : answers[i]

\* time.time() - start_time, kept exact up to the bound and capped beyond it.
Later(elapsed, seconds) ==
  IF elapsed + seconds > connection_timeout THEN connection_timeout + 1
  ELSE elapsed + seconds

\* Mutant of start_and_get_url_call: the detected application is logged but
\* the call goes on to _launch_process all the same.
start_and_get_url_call_no_early_return ==
  /\ controller # NONE
  /\ launcher.lpc = "idle"
  /\ launcher.calls < MaxLauncherCalls
  /\ \E listener \in BOOLEAN, answers \in Answers, path_exists \in BOOLEAN :
       LET detected == check_application_running(launcher.known_port, listener, answers)
           h0 == [NoCallHistory EXCEPT !.op = "start", !.ret = "pending",
                                       !.listener = listener, !.answers = answers,
                                       !.detected = detected,
                                       !.path_exists = path_exists,
                                       !.alive_at_call = (launcher.process = "alive")]
       IN  launcher' = [launcher EXCEPT !.calls = @ + 1, !.lpc = "launch", !.h = h0]
  /\ UNCHANGED nonLauncherVars

\* start_and_get_url() up to the return of line 98: the application is
\* detected, or the call goes on to _launch_process.
start_and_get_url_call ==
  /\ controller # NONE
  /\ launcher.lpc = "idle"
  /\ launcher.calls < MaxLauncherCalls
  /\ \E listener \in BOOLEAN, answers \in Answers, path_exists \in BOOLEAN :
       LET detected == check_application_running(launcher.known_port, listener, answers)
           h0 == [NoCallHistory EXCEPT !.op = "start", !.ret = "pending",
                                       !.listener = listener, !.answers = answers,
                                       !.detected = detected,
                                       !.path_exists = path_exists,
                                       !.alive_at_call = (launcher.process = "alive")]
       IN  launcher' =
             IF detected
               THEN [launcher EXCEPT !.calls = @ + 1,
                                     !.h = [h0 EXCEPT !.ret = web_url(launcher.known_port)]]
               ELSE [launcher EXCEPT !.calls = @ + 1, !.lpc = "launch", !.h = h0]
  /\ UNCHANGED nonLauncherVars

\* Mutant of launch_process: no os.path.exists test, a missing path is
\* taken for a launched process.
launch_process_no_path_test ==
  /\ launcher.lpc = "launch"
  /\ \E listener \in BOOLEAN, answers \in Answers, popen \in {"alive", "exited", "raises"} :
       IF check_application_running(launcher.known_port, listener, answers)
         THEN launcher' = [launcher EXCEPT !.lpc = "initial_wait", !.h.redetected = TRUE]
       ELSE IF launcher.process = "alive"
         THEN launcher' = [launcher EXCEPT !.lpc = "initial_wait", !.h.tracked_alive = TRUE]
       ELSE IF ~launcher.h.path_exists
         THEN launcher' = [launcher EXCEPT !.lpc = "initial_wait"]
       ELSE CASE popen = "alive"  ->
                   launcher' = [launcher EXCEPT !.process = "alive", !.h.popens = @ + 1,
                                                !.lpc = "initial_wait"]
              [] popen = "exited" ->
                   launcher' = [launcher EXCEPT !.process = "exited", !.h.popens = @ + 1,
                                                !.h.early_exit = TRUE,
                                                !.lpc = "idle", !.h.ret = NONE]
              [] popen = "raises" ->
                   launcher' = [launcher EXCEPT !.lpc = "idle", !.h.ret = NONE]
  /\ UNCHANGED nonLauncherVars

\* _launch_process() and the test of its result (line 100).
launch_process ==
  /\ launcher.lpc = "launch"
  /\ \E listener \in BOOLEAN, answers \in Answers, popen \in {"alive", "exited", "raises"} :
       IF check_application_running(launcher.known_port, listener, answers)
         THEN launcher' = [launcher EXCEPT !.lpc = "initial_wait", !.h.redetected = TRUE]
       ELSE IF launcher.process = "alive"
         THEN launcher' = [launcher EXCEPT !.lpc = "initial_wait", !.h.tracked_alive = TRUE]
       ELSE IF ~launcher.h.path_exists
         THEN launcher' = [launcher EXCEPT !.lpc = "idle", !.h.ret = NONE]
       ELSE CASE popen = "alive"  ->
                   launcher' = [launcher EXCEPT !.process = "alive", !.h.popens = @ + 1,
                                                !.lpc = "initial_wait"]
              [] popen = "exited" ->
                   launcher' = [launcher EXCEPT !.process = "exited", !.h.popens = @ + 1,
                                                !.h.early_exit = TRUE,
                                                !.lpc = "idle", !.h.ret = NONE]
              [] popen = "raises" ->
                   launcher' = [launcher EXCEPT !.lpc = "idle", !.h.ret = NONE]
  /\ UNCHANGED nonLauncherVars

\* time.sleep(initial_wait), the web_url test and start_time = time.time().
start_and_get_url_initial_wait ==
  /\ launcher.lpc = "initial_wait"
  /\ launcher' =
       IF web_url(launcher.known_port) = NONE
         THEN [launcher EXCEPT !.lpc = "idle", !.h.slept = TRUE, !.h.ret = NONE]
         ELSE [launcher EXCEPT !.lpc = "round", !.h.slept = TRUE,
                               !.attempt = 0, !.elapsed = 0]
  /\ UNCHANGED nonLauncherVars

\* Mutant of start_and_get_url_round: no timeout test at the head of a round.
start_and_get_url_round_no_timeout ==
  /\ launcher.lpc = "round"
  /\ launcher' =
       IF launcher.attempt >= max_connection_attempts
         THEN [launcher EXCEPT !.lpc = "idle", !.h.ret = NONE]
       ELSE [launcher EXCEPT !.attempt = @ + 1, !.lpc = "probe", !.endpoint = 1,
                             !.h.rounds = @ + 1, !.h.tried = <<>>,
                             !.h.late_rounds =
                                IF launcher.elapsed > connection_timeout THEN @ + 1 ELSE @]
  /\ UNCHANGED nonLauncherVars

\* for attempt in range(1, max_connection_attempts + 1): the next round, the
\* timeout test at its head, or the end of the loop and the final return None.
start_and_get_url_round ==
  /\ launcher.lpc = "round"
  /\ launcher' =
       IF launcher.attempt >= max_connection_attempts
         THEN [launcher EXCEPT !.lpc = "idle", !.h.ret = NONE]
       ELSE IF launcher.elapsed > connection_timeout
         THEN [launcher EXCEPT !.attempt = @ + 1, !.lpc = "idle", !.h.ret = NONE]
       ELSE [launcher EXCEPT !.attempt = @ + 1, !.lpc = "probe", !.endpoint = 1,
                             !.h.rounds = @ + 1, !.h.tried = <<>>,
                             !.h.late_rounds =
                                IF launcher.elapsed > connection_timeout THEN @ + 1 ELSE @]
  /\ UNCHANGED nonLauncherVars

\* requests.get(web_url + endpoint, timeout=5): an answer returns the URL, a
\* RequestException goes on to the next endpoint, after the last one
\* time.sleep(2).
start_and_get_url_probe ==
  /\ launcher.lpc = "probe"
  /\ \E responds \in BOOLEAN, seconds \in {0, ProbeTimeout} :
       LET i == launcher.endpoint
           h1 == [launcher.h EXCEPT !.polled = @ + 1,
                                    !.tried = Append(@, Endpoints[i]),
                                    !.after_response =
                                       IF launcher.h.responded THEN @ + 1 ELSE @]
       IN  launcher' =
             IF responds
               THEN [launcher EXCEPT !.lpc = "idle",
                                     !.h = [h1 EXCEPT !.responded = TRUE,
                                                      !.ret = web_url(launcher.known_port)]]
             ELSE IF i < Len(Endpoints)
               THEN [launcher EXCEPT !.endpoint = i + 1,
                                     !.elapsed = Later(@, seconds), !.h = h1]
             ELSE [launcher EXCEPT !.lpc = "round",
                                   !.elapsed = Later(Later(@, seconds), RoundSleep),
                                   !.h = h1]
  /\ UNCHANGED nonLauncherVars

\* ---------------------------------------- WebAppController.stop_process

\* stop_process() up to process.terminate(); without a live process of its
\* own the call returns True at once.
stop_process_call ==
  /\ controller # NONE
  /\ launcher.lpc = "idle"
  /\ launcher.calls < MaxLauncherCalls
  /\ \E raises \in BOOLEAN :
       LET h0 == [NoCallHistory EXCEPT !.op = "stop", !.ret = "pending",
                                       !.alive_at_call = (launcher.process = "alive")]
       IN  launcher' =
             IF launcher.process # "alive"
               THEN [launcher EXCEPT !.calls = @ + 1, !.h = [h0 EXCEPT !.ret = "True"]]
             ELSE IF raises
               THEN [launcher EXCEPT !.calls = @ + 1,
                                     !.h = [h0 EXCEPT !.terminates = 1, !.ret = "False"]]
             ELSE [launcher EXCEPT !.calls = @ + 1, !.lpc = "stop_poll",
                                   !.h = [h0 EXCEPT !.terminates = 1]]
  /\ UNCHANGED nonLauncherVars

\* for _ in range(5): if self.process.poll() is not None: return True;
\* time.sleep(1)
stop_process_poll ==
  /\ launcher.lpc = "stop_poll"
  /\ launcher.h.checks < StopChecks
  /\ launcher' =
       IF launcher.process # "alive"
         THEN [launcher EXCEPT !.lpc = "idle", !.h.checks = @ + 1, !.h.ret = "True"]
         ELSE [launcher EXCEPT !.h.checks = @ + 1, !.h.sleeps = @ + 1]
  /\ UNCHANGED nonLauncherVars

\* Mutant of stop_process_kill: the kill does not wait for the exit checks.
stop_process_kill_at_once ==
  /\ launcher.lpc = "stop_poll"
  /\ \E raises \in BOOLEAN :
       launcher' =
         IF raises
           THEN [launcher EXCEPT !.lpc = "idle", !.h.kills = @ + 1,
                                 !.h.kill_after = launcher.h.sleeps, !.h.ret = "False"]
           ELSE [launcher EXCEPT !.lpc = "idle", !.process = "exited",
                                 !.h.kills = @ + 1,
                                 !.h.kill_after = launcher.h.sleeps, !.h.ret = "True"]
  /\ UNCHANGED nonLauncherVars

\* self.process.kill(); self.process.wait(); return True -- or the except.
stop_process_kill ==
  /\ launcher.lpc = "stop_poll"
  /\ launcher.h.checks >= StopChecks
  /\ \E raises \in BOOLEAN :
       launcher' =
         IF raises
           THEN [launcher EXCEPT !.lpc = "idle", !.h.kills = @ + 1,
                                 !.h.kill_after = launcher.h.sleeps, !.h.ret = "False"]
           ELSE [launcher EXCEPT !.lpc = "idle", !.process = "exited",
                                 !.h.kills = @ + 1,
                                 !.h.kill_after = launcher.h.sleeps, !.h.ret = "True"]
  /\ UNCHANGED nonLauncherVars

\* The subprocess ends (by itself, or after the terminate request).
process_exits ==
  /\ launcher.process = "alive"
  /\ launcher' = [launcher EXCEPT !.process = "exited"]
  /\ UNCHANGED nonLauncherVars

\* ----------------------------------------------------------- specification

\* No operation in progress, no stopper call, nothing observed yet, on a
\* client whose configuration gave common.
QuiescentConfigured(common) ==
  /\ ip_address \in {NONE, "192.168.0.2"}
  /\ popup_thread_active = FALSE
  /\ system_state_data = InitialSystemState
  /\ pc = "idle"
  /\ test_started = FALSE
  /\ waited = 0
  /\ popup_thread = 0
  /\ stopper_pc = "idle"
  /\ stopper_result = NONE
  /\ stop_calls = 0
  /\ stopper_saw = "none"
  /\ force_stops = NoForceStops
  /\ run_checks = 0
  /\ last_poll = NoPoll
  /\ ever_running = FALSE
  /\ stop_set_in_run = FALSE
  /\ scenario = 0
  /\ loopers = {}
  /\ lifecycle_calls = 0
  /\ probe = NoProbe
  /\ lifecycle_log = NoLifecycleLog
  /\ update_call = NoUpdateCall
  /\ PopQuiescent
  /\ configured = common

\* What the specifications start from, the configuration not being read.
Quiescent == QuiescentConfigured(ControllerDefaults)

\* GRLApiClient.__init__
InitConstructed ==
  /\ Quiescent
  /\ api_handler = NONE
  /\ controller = NONE
  /\ base_url = NONE
  /\ stop_requested = FALSE
  /\ result = NONE
  /\ thread = [t \in Threads |-> "none"]
  /\ launched_ok = FALSE
  /\ launcher = NoController

\* The client after __init__ and a launch_app() that returned True.
InitLaunched ==
  /\ Quiescent
  /\ api_handler = "GRLApiHandler"
  /\ controller = "WebAppController"
  /\ base_url = "http://localhost:port"
  /\ stop_requested = FALSE
  /\ result = "True"
  /\ thread = [t \in Threads |-> "none"]
  /\ launched_ok = TRUE
  /\ launcher = LaunchedController

\* The launched client before one test run: earlier connect() calls have
\* returned and their responder threads have exited (one thread id is left
\* for the run), and stop_test_run() may have been called while idle.
InitBeforeRun ==
  /\ Quiescent
  /\ api_handler = "GRLApiHandler"
  /\ controller = "WebAppController"
  /\ base_url = "http://localhost:port"
  /\ stop_requested \in BOOLEAN
  /\ result = "True"
  /\ thread = [t \in Threads |-> IF t < MaxThreads THEN "exited" ELSE "none"]
  /\ launched_ok = TRUE
  /\ launcher = LaunchedController

\* A direct call of _is_test_running() with any pair of payloads.
is_test_running_call ==
  /\ pc = "idle"
  /\ \E app \in AppPayloads, status \in StatusPayloads :
       /\ probe' = [called |-> TRUE, app |-> app, status |-> status,
                    running |-> is_test_running(api_handler, app, status)]
       /\ system_state_data' =
            SnapshotAfterPoll(api_handler, system_state_data, app, status)
  /\ UNCHANGED <<api_handler, controller, base_url, ip_address, popup_thread_active,
                 stop_requested, mainVars, thread, stopperVars, runVars, loopers,
                 launched_ok, lifecycle_calls, extVars>>

SubmitStep ==
  \/ submit_test_list_call
  \/ submit_test_list_post
  \/ submit_test_list_wait_check
  \/ submit_test_list_wait_poll
  \/ submit_test_list_wait_done
  \/ submit_test_list_run_poll
  \/ submit_test_list_run_check_stop
  \/ submit_test_list_run_done
  \/ submit_test_list_cancel
  \/ submit_test_list_finally
  \/ submit_test_list_join

StopStep ==
  \/ stop_test_run
  \/ stop_test_execution_check
  \/ stop_test_execution_cancel

ResponderStep ==
  \E t \in Threads :
    \/ handle_popups_check(t)
    \/ handle_popups_fetch(t)
    \/ handle_popups_respond(t)

ConnectStep ==
  \/ connect_call
  \/ connect_request
  \/ connect_diagnostics
  \/ connect_finally
  \/ connect_join

LifecycleStep ==
  \/ launch_app_start
  \/ launch_app_verify
  \/ disconnect

\* The test-run monitor: submit_test_list on the calling thread, the stop
\* entry points on a second thread, the responder threads.
NextMonitor == SubmitStep \/ StopStep \/ ResponderStep

SpecMonitor == (InitConstructed \/ InitBeforeRun) /\ [][NextMonitor]_vars

\* One test run in which the calling thread keeps running: no step of
\* submit_test_list blocks for ever (every request it sends returns, every
\* sleep ends).  A second thread may call stop_test_run() at any moment; the
\* responder may do anything.
NextCancel == SubmitStep \/ stop_test_run \/ ResponderStep

SpecCancel == InitBeforeRun /\ [][NextCancel]_vars /\ WF_vars(SubmitStep)

\* The responder threads across operations: connect and submit_test_list in
\* any order, stop_test_run on a second thread.
NextResponder == ConnectStep \/ SubmitStep \/ ResponderStep \/ stop_test_run

SpecResponder == InitLaunched /\ [][NextResponder]_vars

\* A responder thread keeps running: its requests return, its sleeps end.
ResponderRuns(t) ==
  handle_popups_check(t) \/ handle_popups_fetch(t) \/ handle_popups_respond(t)

\* connect() calls one after the other with responder threads that keep
\* running; the calling thread may take any time between and inside calls.
NextLoop == ConnectStep \/ ResponderStep

SpecLoop ==
  InitLaunched /\ [][NextLoop]_vars /\ \A t \in Threads : WF_vars(ResponderRuns(t))

\* launch_app, connect and disconnect in any order.
NextLifecycle == LifecycleStep \/ ConnectStep \/ ResponderStep

SpecLifecycle == InitConstructed /\ [][NextLifecycle]_vars

\* A WebAppController used directly.
InitController ==
  /\ Quiescent
  /\ api_handler = NONE
  /\ controller = "WebAppController"
  /\ base_url = NONE
  /\ stop_requested = FALSE
  /\ result = NONE
  /\ thread = [t \in Threads |-> "none"]
  /\ launched_ok = FALSE
  /\ \E port \in Ports : launcher = NewController(port)

LauncherStep ==
  \/ start_and_get_url_call
  \/ launch_process
  \/ start_and_get_url_initial_wait
  \/ start_and_get_url_round
  \/ start_and_get_url_probe
  \/ stop_process_call
  \/ stop_process_poll
  \/ stop_process_kill

\* start_and_get_url and stop_process in any order, the subprocess ending
\* whenever it does.
NextLauncher == LauncherStep \/ process_exits

SpecLauncher == InitController /\ [][NextLauncher]_vars

\* App-state payloads handed to update_system_state directly.
SnapshotApps ==
  {AppDict("READY", "CONNECTED"), AppDict("BUSY", Missing), AppEmpty, AppNotDict}

\* Snapshots a client may hold before a call: the initial one and those one
\* update_system_state leaves behind.
PriorSnapshots ==
  {InitialSystemState}
    \cup {update_system_state(InitialSystemState, a, t) :
            a \in SnapshotApps, t \in StatusPayloads}

\* A launched client holding any of these snapshots.
InitSnapshot ==
  /\ system_state_data \in PriorSnapshots
  /\ ip_address = NONE
  /\ popup_thread_active = FALSE
  /\ pc = "idle"
  /\ test_started = FALSE
  /\ waited = 0
  /\ popup_thread = 0
  /\ stopper_pc = "idle"
  /\ stopper_result = NONE
  /\ stop_calls = 0
  /\ stopper_saw = "none"
  /\ force_stops = NoForceStops
  /\ run_checks = 0
  /\ last_poll = NoPoll
  /\ ever_running = FALSE
  /\ stop_set_in_run = FALSE
  /\ scenario = 0
  /\ loopers = {}
  /\ lifecycle_calls = 0
  /\ probe = NoProbe
  /\ lifecycle_log = NoLifecycleLog
  /\ update_call = NoUpdateCall
  /\ PopQuiescent
  /\ configured = ControllerDefaults
  /\ api_handler = "GRLApiHandler"
  /\ controller = "WebAppController"
  /\ base_url = "http://localhost:port"
  /\ stop_requested = FALSE
  /\ result = "True"
  /\ thread = [t \in Threads |-> "none"]
  /\ launched_ok = TRUE
  /\ launcher = LaunchedController

\* A direct call of update_system_state(app_state_dict, test_status_dict).
update_system_state_call ==
  /\ pc = "idle"
  /\ update_call.calls < MaxUpdateCalls
  /\ \E app \in SnapshotApps, status \in StatusPayloads :
       /\ update_call' =
            [calls |-> update_call.calls + 1,
             before |-> system_state_data,
             app |-> app, status |-> status,
             repeated |-> /\ update_call.calls > 0
                          /\ app = update_call.app
                          /\ status = update_call.status]
       /\ system_state_data' = update_system_state(system_state_data, app, status)
  /\ UNCHANGED <<api_handler, controller, base_url, ip_address, popup_thread_active,
                 stop_requested, mainVars, thread, stopperVars, runVars, loopers,
                 launched_ok, lifecycle_calls, probe, launcher, lifecycle_log, popVars, apiVars, tornVars, sweep, configured>>

\* update_system_state on every pair of payloads, twice.
NextSnapshot == update_system_state_call

SpecSnapshot == InitSnapshot /\ [][NextSnapshot]_vars

\* The running predicate on every pair of payloads.
NextPoll == is_test_running_call

SpecPoll == InitLaunched /\ [][NextPoll]_vars

\* Files an earlier session may have left in the working directory.
PriorFiles ==
  {[flat |-> NoFile, by_test |-> NoFile],
   [flat |-> ArrayFile(<<"m2">>),
    by_test |-> ObjectFile(Appended(EmptyMap, <<"Foo">>, "m2"))]}

\* Status polls between the ticks: idle, a test started and completed, a
\* test without a name, a payload update_system_state cannot read.
PopupPolls ==
  {<<AppDict("READY", "CONNECTED"), StatusDict(TxtIdle)>>,
   <<AppDict("BUSY", "CONNECTED"), StatusDict(TxtStarted)>>,
   <<AppDict("BUSY", "CONNECTED"), StatusDict(TxtMiddle)>>,
   <<AppDict("READY", "CONNECTED"), StatusDict(TxtCompleted)>>,
   <<AppDict("BUSY", "CONNECTED"), StatusDict(<<"Test", ":", " ", ":", "Started">>)>>,
   <<AppNotDict, StatusNoKey>>}

\* A launched client right after __init__ ran create_empty_json() on the
\* files it found.
InitPopupLog ==
  /\ \E prior \in PriorFiles, o1 \in WriteOutcomes, o2 \in WriteOutcomes :
       /\ popup_files = create_empty_json(prior, o1, o2)
       /\ popup_call = [NoPopupCall EXCEPT !.created = <<o1, IF o1 = "ok" THEN o2 ELSE "none">>,
                                           !.found = prior]
  /\ transport = NoTransport
  /\ health = NoHealth
  /\ verify = NoVerify
  /\ writers = NoWriters
  /\ seen = NoSeen
  /\ sweep = NoSweep
  /\ configured = ControllerDefaults
  /\ system_state_data = InitialSystemState
  /\ ip_address = NONE
  /\ popup_thread_active = FALSE
  /\ pc = "idle"
  /\ test_started = FALSE
  /\ waited = 0
  /\ popup_thread = 0
  /\ stopper_pc = "idle"
  /\ stopper_result = NONE
  /\ stop_calls = 0
  /\ stopper_saw = "none"
  /\ force_stops = NoForceStops
  /\ run_checks = 0
  /\ last_poll = NoPoll
  /\ ever_running = FALSE
  /\ stop_set_in_run = FALSE
  /\ scenario = 0
  /\ loopers = {}
  /\ lifecycle_calls = 0
  /\ probe = NoProbe
  /\ lifecycle_log = NoLifecycleLog
  /\ update_call = NoUpdateCall
  /\ api_handler = "GRLApiHandler"
  /\ controller = "WebAppController"
  /\ base_url = "http://localhost:port"
  /\ stop_requested = FALSE
  /\ result = "True"
  /\ thread = [t \in Threads |-> "none"]
  /\ launched_ok = TRUE
  /\ launcher = LaunchedController

\* A status poll (_is_test_running) updates the snapshot between two ticks.
is_test_running_poll ==
  /\ popup_call.polls < MaxPolls
  /\ \E p \in PopupPolls :
       system_state_data' = SnapshotAfterPoll(api_handler, system_state_data, p[1], p[2])
  /\ popup_call' = [popup_call EXCEPT !.polls = @ + 1]
  /\ UNCHANGED <<api_handler, controller, base_url, ip_address, popup_thread_active,
                 stop_requested, mainVars, thread, stopperVars, runVars, loopers,
                 launched_ok, lifecycle_calls, probe, launcher, lifecycle_log,
                 update_call, popup_files, apiVars, tornVars, sweep, configured>>

\* Mutant of handle_connection_popup: a dialog without a message is
\* acknowledged as well.
handle_connection_popup_answers_empty ==
  /\ api_handler # NONE
  /\ popup_call.ticks < MaxTicks
  /\ \E f \in Fetched, w1 \in WriteOutcomes, w2 \in WriteOutcomes :
       IF f.kind \notin {"dialog", "empty_message"}
         THEN /\ popup_files' = popup_files
              /\ popup_call' = [popup_call EXCEPT !.ticks = @ + 1, !.fetched = f,
                                                  !.snapshot = system_state_data,
                                                  !.before = popup_files,
                                                  !.writes = <<"none", "none">>,
                                                  !.puts = <<>>]
         ELSE /\ popup_files' =
                   [flat |-> save_only_message(popup_files.flat, f.message, w1),
                    by_test |-> save_message_by_test_case(popup_files.by_test,
                                  system_state_data.test_case_name, f.message, w2)]
              /\ popup_call' = [popup_call EXCEPT !.ticks = @ + 1, !.fetched = f,
                                                  !.snapshot = system_state_data,
                                                  !.before = popup_files,
                                                  !.writes = <<w1, w2>>,
                                                  !.puts = <<PopupResponse(f)>>,
                                                  !.dialogs = @ + 1,
                                                  !.acks = @ + 1,
                                                  !.write_failed =
                                                     @ \/ w1 # "ok" \/ w2 # "ok"]
  /\ UNCHANGED <<clientVars, mainVars, thread, stopperVars, runVars, loopers,
                 launched_ok, lifecycle_calls, probe, launcher, lifecycle_log,
                 update_call, apiVars, tornVars, sweep, configured>>

\* Mutant of handle_connection_popup: a dialog equal to the one fetched by
\* the tick before is taken as handled already.
handle_connection_popup_skips_repeat ==
  /\ api_handler # NONE
  /\ popup_call.ticks < MaxTicks
  /\ \E f \in Fetched, w1 \in WriteOutcomes, w2 \in WriteOutcomes :
       IF f.kind # "dialog" \/ (popup_call.ticks > 0 /\ f = popup_call.fetched)
         THEN /\ w1 = "ok" /\ w2 = "ok"
              /\ popup_files' = popup_files
              /\ popup_call' = [popup_call EXCEPT !.ticks = @ + 1, !.fetched = f,
                                                  !.snapshot = system_state_data,
                                                  !.before = popup_files,
                                                  !.writes = <<"none", "none">>,
                                                  !.puts = <<>>,
                                                  !.dialogs =
                                                     IF f.kind = "dialog" THEN @ + 1 ELSE @]
         ELSE /\ popup_files' =
                   [flat |-> save_only_message(popup_files.flat, f.message, w1),
                    by_test |-> save_message_by_test_case(popup_files.by_test,
                                  system_state_data.test_case_name, f.message, w2)]
              /\ popup_call' = [popup_call EXCEPT !.ticks = @ + 1, !.fetched = f,
                                                  !.snapshot = system_state_data,
                                                  !.before = popup_files,
                                                  !.writes = <<w1, w2>>,
                                                  !.puts = <<PopupResponse(f)>>,
                                                  !.dialogs = @ + 1,
                                                  !.acks = @ + 1,
                                                  !.write_failed =
                                                     @ \/ w1 # "ok" \/ w2 # "ok"]
  /\ UNCHANGED <<clientVars, mainVars, thread, stopperVars, runVars, loopers,
                 launched_ok, lifecycle_calls, probe, launcher, lifecycle_log,
                 update_call, apiVars, tornVars, sweep, configured>>

\* One tick of the responder, _handle_connection_popup(): without a dialog
\* that carries a message it returns (or raises into the loop's except);
\* otherwise save_only_message, save_message_by_test_case, then one
\* put_message_box_response(popupdata), whose failure is logged.
handle_connection_popup ==
  /\ api_handler # NONE
  /\ popup_call.ticks < MaxTicks
  /\ \E f \in Fetched, w1 \in WriteOutcomes, w2 \in WriteOutcomes :
       IF f.kind # "dialog"
         THEN /\ w1 = "ok" /\ w2 = "ok"
              /\ popup_files' = popup_files
              /\ popup_call' = [popup_call EXCEPT !.ticks = @ + 1, !.fetched = f,
                                                  !.snapshot = system_state_data,
                                                  !.before = popup_files,
                                                  !.writes = <<"none", "none">>,
                                                  !.puts = <<>>]
         ELSE /\ popup_files' =
                   [flat |-> save_only_message(popup_files.flat, f.message, w1),
                    by_test |-> save_message_by_test_case(popup_files.by_test,
                                  system_state_data.test_case_name, f.message, w2)]
              /\ popup_call' = [popup_call EXCEPT !.ticks = @ + 1, !.fetched = f,
                                                  !.snapshot = system_state_data,
                                                  !.before = popup_files,
                                                  !.writes = <<w1, w2>>,
                                                  !.puts = <<PopupResponse(f)>>,
                                                  !.dialogs = @ + 1,
                                                  !.acks = @ + 1,
                                                  !.write_failed =
                                                     @ \/ w1 # "ok" \/ w2 # "ok"]
  /\ UNCHANGED <<clientVars, mainVars, thread, stopperVars, runVars, loopers,
                 launched_ok, lifecycle_calls, probe, launcher, lifecycle_log,
                 update_call, apiVars, tornVars, sweep, configured>>

\* Status polls and responder ticks in any order.
NextPopupLog == is_test_running_poll \/ handle_connection_popup

SpecPopupLog == InitPopupLog /\ [][NextPopupLog]_vars


\* ================================================================= claims

\* Results submit_test_list returns once the submission itself succeeded.
AfterSubmission == {RetSuccess, RetWarning, RetCancelled}

\* The app_state a poll reported ("" when the key or the object is absent).
ReportedAppState(app) == IF app.dict THEN Get(app.appState, "") ELSE ""

\* The poll carried a test-status string with the token Started.
ReportedStarted(status) ==
  /\ status.dict /\ status.has /\ ~status.null
  /\ \E i \in DOMAIN status.text : status.text[i] = "Started"

\* Reading the payloads raises inside _is_test_running: a payload that is no
\* JSON object, or a null "Test Status" (tested with "in" unless READY
\* returned before).
Malformed(app, status) ==
  \/ ~app.dict
  \/ ~status.dict
  \/ status.has /\ status.null /\ ReportedAppState(app) # "READY"

\* ---- C1 (SpecMonitor).  With the submission accepted and no stop request,
\* submit_test_list returns plain {success: True} exactly when the monitor saw
\* the running predicate true and its latest poll saw it false; when the
\* polls report READY, BUSY, BUSY, READY the monitor polls no further, the
\* RUNNING-loop condition was evaluated between 2 and 4 times and the result
\* is {success: True}.
C1_CompletedExactlyWhenRanAndEnded ==
  /\ (pc = "idle" /\ result \in AfterSubmission /\ ~stop_set_in_run)
       => (result = RetSuccess
             <=> (ever_running /\ last_poll.polled /\ ~last_poll.running))
  /\ (scenario = Len(ScenarioStates) /\ ~stop_set_in_run)
       => /\ run_checks \in 2..4
          /\ pc \in {"run_done", "submit_finally", "submit_join", "idle"}
          /\ (pc # "run_done" => result = RetSuccess)

C1_Witness ==
  /\ pc = "idle" /\ result = RetSuccess /\ ~stop_set_in_run
  /\ scenario = Len(ScenarioStates) /\ run_checks = 2

\* ---- C2 (SpecMonitor).  The claim as stated: a run that returned the
\* cancelled result had its stop flag set by a stop entry point and, once
\* both callers have returned, exactly one force-stop request was sent for it.
C2_ExactlyOneForceStop ==
  (pc = "idle" /\ stopper_pc = "idle" /\ result = RetCancelled)
    => /\ stop_set_in_run
       /\ force_stops.monitor + force_stops.stopper = 1

\* ---- C3 (SpecMonitor).  A stop_test_execution() whose poll finds no test
\* running returns False, sends no force-stop and leaves stop_requested as it
\* was; without a handler the poll always finds no test running.
C3_StopWhenIdleIsNoOp ==
  [][(stop_calls' = stop_calls + 1 /\ stopper_saw' # "none")
       => /\ (api_handler = NONE => stopper_saw' = "not running")
          /\ (stopper_saw' = "not running"
                => /\ stopper_result' = "False"
                   /\ stopper_pc' = "idle"
                   /\ stop_requested' = stop_requested
                   /\ force_stops' = force_stops)]_vars

C3_Witness ==
  /\ stopper_saw = "not running" /\ stopper_result = "False"
  /\ api_handler # NONE /\ ~stop_requested
  /\ force_stops = NoForceStops

\* ---- C4 (SpecPoll).  The claim as stated: READY gives false; BUSY gives
\* true; a Started status with any app_state but READY gives true; all else
\* gives false.
C4_PredicateAsStated ==
  probe.called =>
    LET a == ReportedAppState(probe.app)
        started == ReportedStarted(probe.status)
    IN  /\ (a = "READY" => ~probe.running)
        /\ (a = "BUSY" => probe.running)
        /\ (started /\ a # "READY" => probe.running)
        /\ (a # "READY" /\ a # "BUSY" /\ ~started => ~probe.running)

\* C4 amended: the same, for payloads that can be read; a poll whose payloads
\* cannot be read (no JSON object, null status) gives false, BUSY or not.
C4_PredicateOnReadablePayloads ==
  probe.called =>
    LET a == ReportedAppState(probe.app)
        started == ReportedStarted(probe.status)
    IN  IF Malformed(probe.app, probe.status)
          THEN ~probe.running
          ELSE /\ (a = "READY" => ~probe.running)
               /\ (a = "BUSY" => probe.running)
               /\ (started /\ a # "READY" => probe.running)
               /\ (a # "READY" /\ a # "BUSY" /\ ~started => ~probe.running)

C4_Witness ==
  /\ probe.called /\ ~probe.running
  /\ ReportedAppState(probe.app) = "BUSY" /\ ~probe.status.dict

\* ---- C5 (SpecMonitor).  The claim as stated: a run reported complete had
\* app_state READY in the monitor's last poll.
C5_CompletedOnlyAfterReady ==
  (pc = "idle" /\ result = RetSuccess)
    => (last_poll.polled /\ ReportedAppState(last_poll.app) = "READY")

\* C5 amended: a run reported complete had a last poll, made by the RUNNING
\* loop, in which the running predicate was false: READY, or neither BUSY nor
\* a Started status, or a poll that could not be read; a cancelled run had
\* its stop flag set.
C5_CompletedOnlyAfterNotRunning ==
  /\ (pc \in {"submit_finally", "submit_join", "idle"} /\ result = RetSuccess)
       => /\ run_checks >= 1
          /\ last_poll.polled /\ ~last_poll.running
          /\ \/ ReportedAppState(last_poll.app) = "READY"
             \/ Malformed(last_poll.app, last_poll.status)
             \/ /\ ReportedAppState(last_poll.app) # "BUSY"
                /\ ~ReportedStarted(last_poll.status)
  /\ (pc \in {"submit_finally", "submit_join", "idle"} /\ result = RetCancelled)
       => stop_set_in_run

C5_Witness ==
  /\ pc = "idle" /\ result = RetSuccess
  /\ ReportedAppState(last_poll.app) # "READY"

\* ---- C6 (SpecMonitor).  A failed submission is terminal: the result is the
\* submit failure, and the run made no status poll, never waited for the
\* start, never evaluated the RUNNING loop and sent no force-stop.
C6_FailedSubmissionIsTerminal ==
  result = RetSubmitFailed
    => /\ pc \in {"submit_finally", "submit_join", "idle"}
       /\ ~last_poll.polled
       /\ ~test_started /\ waited = 0
       /\ run_checks = 0
       /\ force_stops.monitor = 0

C6_Witness == pc = "idle" /\ result = RetSubmitFailed /\ thread[MaxThreads] # "none"

\* ---- C7 (SpecMonitor).  Without a stop request the wait loop is left
\* unstarted only once the 30 s have elapsed; then, and whenever the running
\* predicate was never seen true with no stop requested, the result is the
\* warning, reached without a RUNNING-loop check and without a force-stop.
C7_NotStartedGivesWarning ==
  /\ (pc = "wait_done" /\ ~stop_set_in_run)
       => (waited >= StartTimeout /\ ~test_started /\ ~ever_running)
  /\ (pc \in {"submit_finally", "submit_join", "idle"} /\ result = RetWarning)
       => (~ever_running /\ run_checks = 0 /\ force_stops.monitor = 0)
  /\ (pc = "idle" /\ result \in AfterSubmission /\ ~stop_set_in_run /\ ~ever_running)
       => result = RetWarning

C7_Witness == pc = "idle" /\ result = RetWarning /\ ~stop_set_in_run

\* ---- C8 (SpecResponder).  The request of submit_test_list / connect is
\* sent with the operation's responder thread already started, and once the
\* operation has returned after starting it, whatever the path,
\* popup_thread_active is false.
StartedResults ==
  {RetSuccess, RetWarning, RetSubmitFailed, RetCancelled, RetException,
   RetConnected, RetConnectFailed}

C8_ResponderBracketsOperation ==
  /\ pc \in {"submit_post", "connect_request"}
       => (popup_thread \in Threads /\ thread[popup_thread] # "none")
  /\ (pc = "idle" /\ result \in StartedResults) => ~popup_thread_active

C8_Witness == pc = "idle" /\ result = RetException /\ ~popup_thread_active

\* ---- C9 (SpecResponder).  The claim as stated: at most one responder
\* thread is inside a loop iteration it began since the latest responder
\* thread was started.
C9_AtMostOneResponderLoops ==
  Cardinality({t \in Threads : t \in loopers /\ thread[t] \in InRequest}) <= 1

\* ---- C10 (SpecLifecycle).  The claim as stated: connect() gets as far as
\* its equipment-connect request only after a launch_app() returned True
\* (since construction or the last disconnect).
C10_ConnectNeedsSuccessfulLaunch ==
  pc = "connect_request" => launched_ok


\* The start_and_get_url() call in progress, or the latest one, has returned.
StartReturned == launcher.h.op = "start" /\ launcher.lpc = "idle"

\* The poll probes of the current round were sent in the order of Endpoints.
TriedInOrder ==
  /\ Len(launcher.h.tried) <= Len(Endpoints)
  /\ \A i \in 1..Len(launcher.h.tried) : launcher.h.tried[i] = Endpoints[i]

\* ---- C13 (SpecLauncher).  start_and_get_url sends poll probes only after
\* the initial wait, in at most max_connection_attempts rounds, none begun
\* with more than connection_timeout elapsed, each round in the order
\* /api/healthcheck, /, /api/status and none after a probe was answered; it
\* returns the URL exactly when the application was detected at the call or
\* a poll probe was answered, and returns None after polling only when every
\* probe of every round failed and the rounds or the timeout were used up.
C13_UrlIffProbeAnswered ==
  launcher.h.op = "start" =>
    LET h == launcher.h
    IN  /\ h.rounds <= max_connection_attempts
        /\ h.late_rounds = 0
        /\ h.polled <= h.rounds * Len(Endpoints)
        /\ TriedInOrder
        /\ h.after_response = 0
        /\ (h.polled > 0 => h.slept)
        /\ (h.responded => StartReturned /\ h.ret = "http://localhost:port")
        /\ StartReturned =>
             /\ h.ret \in {"http://localhost:port", NONE}
             /\ (h.ret = "http://localhost:port" <=> (h.detected \/ h.responded))
             /\ (h.ret = NONE /\ h.polled > 0)
                  => /\ h.polled = h.rounds * Len(Endpoints)
                     /\ \/ h.rounds = max_connection_attempts
                        \/ launcher.elapsed > connection_timeout

C13_Witness ==
  /\ StartReturned /\ launcher.h.ret = NONE
  /\ launcher.h.rounds = 2 /\ launcher.h.polled = 6
  /\ launcher.elapsed > connection_timeout

\* ---- C14 (SpecLauncher).  A start_and_get_url() call that finds a listener
\* on the known port and an endpoint answering has returned
\* http://localhost:{port} with no subprocess started, no initial wait and no
\* poll probe -- on every call, also with a subprocess of an earlier call.
C14_RunningApplicationIsReused ==
  (/\ launcher.h.op = "start"
   /\ launcher.known_port # NONE
   /\ launcher.h.listener
   /\ \E i \in 1..Len(Endpoints) : launcher.h.answers[i])
    => /\ launcher.lpc = "idle"
       /\ launcher.h.ret = "http://localhost:port"
       /\ launcher.h.popens = 0
       /\ ~launcher.h.slept
       /\ launcher.h.polled = 0 /\ launcher.h.rounds = 0

C14_Witness ==
  /\ StartReturned /\ launcher.h.detected /\ launcher.calls = 2
  /\ launcher.h.ret = "http://localhost:port"
  /\ launcher.process = "alive"

\* The call did not find the application running, at line 96 or at line 68,
\* and is past _launch_process.
NotRunningAtLaunch ==
  /\ launcher.h.op = "start"
  /\ ~launcher.h.detected /\ ~launcher.h.redetected
  /\ launcher.lpc # "launch"

\* The call failed at once: None, no initial wait, no poll probe.
FailedFast ==
  /\ launcher.lpc = "idle"
  /\ launcher.h.ret = NONE
  /\ ~launcher.h.slept
  /\ launcher.h.polled = 0 /\ launcher.h.rounds = 0

\* ---- C15 (SpecLauncher).  The claim as stated: with the application not
\* running, a missing app_path or a process that exited right after its
\* start makes the call fail at once, with no second launch.
C15_FailFastAsStated ==
  /\ (NotRunningAtLaunch /\ ~launcher.h.path_exists)
       => (FailedFast /\ launcher.h.popens = 0)
  /\ (NotRunningAtLaunch /\ launcher.h.early_exit)
       => (FailedFast /\ launcher.h.popens = 1)

\* C15 amended: the same when the launcher holds no live subprocess of an
\* earlier call; with one, the path is not looked at and the call goes on to
\* the initial wait and the polling.
C15_FailFastUnlessTracked ==
  /\ (NotRunningAtLaunch /\ ~launcher.h.tracked_alive /\ ~launcher.h.path_exists)
       => (FailedFast /\ launcher.h.popens = 0)
  /\ (NotRunningAtLaunch /\ launcher.h.early_exit)
       => (FailedFast /\ launcher.h.popens = 1 /\ ~launcher.h.tracked_alive)
  /\ (NotRunningAtLaunch /\ launcher.h.tracked_alive)
       => (launcher.h.popens = 0 /\ (launcher.lpc = "idle" => launcher.h.slept))

C15_Witness ==
  /\ NotRunningAtLaunch /\ ~launcher.h.path_exists /\ ~launcher.h.tracked_alive
  /\ FailedFast /\ launcher.known_port # NONE

\* ---- C16 (SpecLauncher).  stop_process requests termination exactly when
\* the launcher's own subprocess is alive, checks for the exit at most 5
\* times with a 1 s sleep after each check that saw it alive, and kills only
\* after 5 such checks; a call returning True leaves no live subprocess; with
\* no subprocess or an exited one it returns True at once having terminated,
\* checked and killed nothing.
C16_StopProcess ==
  launcher.h.op = "stop" =>
    LET h == launcher.h
    IN  /\ h.terminates = (IF h.alive_at_call THEN 1 ELSE 0)
        /\ h.kills <= 1
        /\ h.checks <= StopChecks /\ h.sleeps <= h.checks
        /\ (h.kills = 1 => (h.checks = StopChecks /\ h.kill_after = StopChecks))
        /\ (~h.alive_at_call
              => /\ launcher.lpc = "idle" /\ h.ret = "True"
                 /\ h.checks = 0 /\ h.kills = 0)
        /\ (launcher.lpc = "idle" /\ h.ret = "True") => launcher.process # "alive"

C16_Witness ==
  /\ launcher.h.op = "stop" /\ launcher.lpc = "idle"
  /\ launcher.h.kills = 1 /\ launcher.h.ret = "True"
  /\ launcher.h.terminates = 1


\* A step in which launch_app() returns.
LaunchAppReturns ==
  /\ pc' = "idle"
  /\ \/ pc = "launch_verify"
     \/ /\ pc = "idle" /\ lifecycle_calls' = lifecycle_calls + 1
        /\ lifecycle_log'.last = "launch_app"

\* A step that is a whole disconnect() call.
DisconnectReturns ==
  /\ lifecycle_calls' = lifecycle_calls + 1
  /\ lifecycle_log'.last = "disconnect"

\* ---- C11 (SpecLifecycle).  launch_app() returns True or False; True
\* exactly when start_and_get_url gave a URL and the software-version request
\* that follows reported success; and when it returns, the subprocess of the
\* controller it created has been sent no terminate and no kill and
\* stop_process has not been called on it.
C11_LaunchVerdict ==
  [][LaunchAppReturns
       => /\ result' \in {"True", "False"}
          /\ result' = "True" <=> (lifecycle_log'.got_url /\ lifecycle_log'.version_ok)
          /\ lifecycle_log'.got_url => launcher'.h.ret = "http://localhost:port"
          /\ lifecycle_log'.stops = lifecycle_log.stops
          /\ launcher'.h.terminates = 0 /\ launcher'.h.kills = 0
          /\ (pc = "launch_verify" => launcher' = launcher)]_vars

C11_Witness ==
  /\ pc = "idle" /\ lifecycle_log.last = "launch_app" /\ result = "False"
  /\ lifecycle_log.got_url /\ ~lifecycle_log.version_ok
  /\ launcher.process = "alive"

\* ---- C12 (SpecLifecycle).  disconnect() returns None without raising and
\* leaves popup_thread_active false and api_handler, controller and base_url
\* cleared, whether or not close() or stop_process() failed; close() is
\* sent once if there was a handler, stop_process() once if there was a
\* controller; a disconnect() right after a disconnect() changes no attribute
\* and sends neither.
C12_DisconnectClearsAndIsIdempotent ==
  [][DisconnectReturns
       => /\ result' = NONE /\ pc' = "idle"
          /\ ~popup_thread_active'
          /\ api_handler' = NONE /\ controller' = NONE /\ base_url' = NONE
          /\ lifecycle_log'.closes =
               lifecycle_log.closes + (IF api_handler # NONE THEN 1 ELSE 0)
          /\ lifecycle_log'.stops =
               lifecycle_log.stops + (IF controller # NONE THEN 1 ELSE 0)
          /\ (lifecycle_log.last = "disconnect"
                => /\ clientVars' = clientVars
                   /\ launcher' = launcher
                   /\ lifecycle_log'.closes = lifecycle_log.closes
                   /\ lifecycle_log'.stops = lifecycle_log.stops
                   /\ lifecycle_log'.finalizer_stops = lifecycle_log.finalizer_stops)]_vars

C12_Witness ==
  /\ lifecycle_log.last = "disconnect" /\ lifecycle_log.repeated
  /\ lifecycle_log.close_failed /\ lifecycle_log.stop_failed
  /\ lifecycle_log.closes = 1 /\ lifecycle_log.stops = 1
  /\ api_handler = NONE /\ controller = NONE /\ base_url = NONE


\* The "Test Status" string update_system_state was handed: the text, "" for
\* a missing key, empty also for null.
StatusString(status) ==
  IF status.has /\ ~status.null THEN status.text ELSE <<>>

\* A direct call was made with payloads that are JSON objects.
ReadableUpdate ==
  /\ update_call.calls > 0
  /\ update_call.app.dict /\ update_call.status.dict

\* ---- C17 (SpecSnapshot).  After update_system_state with a status string
\* "Test:<name>:...:<status>" of at least 3 segments, test_case_name is the
\* second segment trimmed and test_status the last segment trimmed:
\* "Test: Foo :Bar:Started " gives Foo and Started, "Test:TC1:Started" gives
\* TC1 and Started.
C17_NameIsSecondStatusIsLast ==
  LET t == StatusString(update_call.status)
  IN  (ReadableUpdate /\ StartsWithTest(t) /\ Len(Split(t)) >= 3)
        => /\ system_state_data.test_case_name = SomeStr(Strip(Split(t)[2]))
           /\ system_state_data.test_status = SomeStr(Strip(Split(t)[Len(Split(t))]))
           /\ (t = TxtMiddle
                 => /\ system_state_data.test_case_name = SomeStr(<<"Foo">>)
                    /\ system_state_data.test_status = SomeStr(<<"Started">>))
           /\ (t = TxtStarted
                 => /\ system_state_data.test_case_name = SomeStr(<<"TC1">>)
                    /\ system_state_data.test_status = SomeStr(<<"Started">>))

C17_Witness ==
  /\ ReadableUpdate /\ update_call.status = StatusDict(TxtMiddle)
  /\ system_state_data.test_case_name = SomeStr(<<"Foo">>)
  /\ update_call.before.test_case_name # SomeStr(<<"Foo">>)

\* ---- C18 (SpecSnapshot).  After update_system_state with a status value
\* that is empty (or absent, or null) or has fewer than 3 segments, the
\* snapshot's test_case_name and test_status are what they were before.
C18_ShortStatusLeavesTestFields ==
  LET t == StatusString(update_call.status)
  IN  (ReadableUpdate /\ (t = <<>> \/ Len(Split(t)) < 3))
        => /\ system_state_data.test_case_name = update_call.before.test_case_name
           /\ system_state_data.test_status = update_call.before.test_status

C18_Witness ==
  /\ ReadableUpdate /\ update_call.status = StatusDict(TxtShort)
  /\ update_call.before.test_case_name = SomeStr(<<"TC1">>)
  /\ system_state_data.test_case_name = SomeStr(<<"TC1">>)
  /\ system_state_data.test_status = SomeStr(<<"Completed">>)

\* ---- C19 (SpecSnapshot).  After update_system_state with a payload that
\* is no JSON object (reading it raises), the snapshot is app_state ERROR,
\* connection_state ERROR, test_case_name None, test_status None, whatever it
\* was before, and the call has returned.
C19_ExceptionResetsSnapshot ==
  (update_call.calls > 0 /\ (~update_call.app.dict \/ ~update_call.status.dict))
    => /\ system_state_data.app_state = "ERROR"
       /\ system_state_data.connection_state = "ERROR"
       /\ system_state_data.test_case_name = NoneStr
       /\ system_state_data.test_status = NoneStr
       /\ pc = "idle" /\ result = "True"

C19_Witness ==
  /\ update_call.calls > 0
  /\ update_call.app.dict /\ ~update_call.status.dict
  /\ update_call.before.test_case_name = SomeStr(<<"TC1">>)
  /\ system_state_data.app_state = "ERROR"
  /\ system_state_data.test_case_name = NoneStr

\* ---- C20 (SpecSnapshot).  A second update_system_state with the same pair
\* of well-formed payloads as the call before it leaves the snapshot exactly
\* as that call left it.
C20_UpdateIsIdempotent ==
  (ReadableUpdate /\ update_call.repeated)
    => system_state_data = update_call.before

C20_Witness ==
  /\ ReadableUpdate /\ update_call.repeated /\ update_call.calls = 2
  /\ update_call.status = StatusDict(TxtMiddle)
  /\ update_call.app = AppDict("BUSY", Missing)
  /\ system_state_data = update_call.before
  /\ system_state_data.test_status = SomeStr(<<"Started">>)

\* A direct call of send_request() on the handler of a launched client.
send_request_call ==
  /\ api_handler # NONE
  /\ transport.calls < MaxSendCalls
  /\ \E method \in Methods, wire \in WireOutcomes :
       transport' = [calls |-> transport.calls + 1, method |-> method, wire |-> wire,
                     result |-> send_request(method, wire)]
  /\ UNCHANGED <<clientVars, mainVars, thread, stopperVars, runVars, loopers,
                 launched_ok, lifecycle_calls, probe, launcher, lifecycle_log,
                 update_call, popVars, health, verify, tornVars, sweep, configured>>

\* verify_versions(): the precondition check of _check_api_handler.
verify_versions_call ==
  /\ verify.pc = "idle"
  /\ verify.calls < MaxVerifyCalls
  /\ verify' = IF api_handler = NONE
                 THEN [pc |-> "idle", calls |-> verify.calls + 1,
                       result |-> RaisedPrecondition]
                 ELSE [pc |-> "fetch", calls |-> verify.calls + 1, result |-> NONE]
  /\ UNCHANGED <<clientVars, mainVars, thread, stopperVars, runVars, loopers,
                 launched_ok, lifecycle_calls, probe, launcher, lifecycle_log,
                 update_call, popVars, transport, health, tornVars, sweep, configured>>

\* verify_versions(): the four handler calls inside the try block.  With the
\* handler gone (a disconnect() since the check) self.api_handler.get_...
\* raises AttributeError, which the except clause logs and raises again.
verify_versions_fetch ==
  /\ verify.pc = "fetch"
  /\ verify' = [verify EXCEPT !.pc = "idle",
                              !.result = IF api_handler = NONE
                                           THEN RaisedAttributeError
                                           ELSE "versions"]
  /\ UNCHANGED <<clientVars, mainVars, thread, stopperVars, runVars, loopers,
                 launched_ok, lifecycle_calls, probe, launcher, lifecycle_log,
                 update_call, popVars, transport, health, tornVars, sweep, configured>>

\* Handler calls, verify_versions() and disconnect() on a launched client.
NextTransport ==
  \/ send_request_call
  \/ verify_versions_call
  \/ verify_versions_fetch
  \/ disconnect

SpecTransport == InitLaunched /\ [][NextTransport]_vars

\* check_api_health(use_parallel) begins: every endpoint will answer somehow.
check_api_health_call ==
  /\ health.pc # "checking"
  /\ \E parallel \in BOOLEAN, wires \in [1..Len(HealthEndpoints) -> HealthWires] :
       health' = [pc |-> "checking", parallel |-> parallel, wires |-> wires,
                  endpoints |-> NoEntries, successes |-> {},
                  overall_status |-> "unknown"]
  /\ UNCHANGED <<clientVars, mainVars, thread, stopperVars, runVars, loopers,
                 launched_ok, lifecycle_calls, probe, launcher, lifecycle_log,
                 update_call, popVars, transport, verify, tornVars, sweep, configured>>

\* check(*ep) for endpoint i: sequentially in list order, in parallel mode by
\* the workers of the executor in any order.
check_api_health_check(i) ==
  /\ health.pc = "checking"
  /\ i \notin DOMAIN health.endpoints
  /\ health.parallel \/ \A j \in 1..(i - 1) : j \in DOMAIN health.endpoints
  /\ health' = [health EXCEPT
                  !.endpoints = [j \in DOMAIN health.endpoints \cup {i} |->
                                   IF j = i THEN CheckEntry(health.wires[i])
                                   ELSE health.endpoints[j]],
                  !.successes = IF CheckSuccess(health.wires[i]) THEN @ \cup {i} ELSE @]
  /\ UNCHANGED <<clientVars, mainVars, thread, stopperVars, runVars, loopers,
                 launched_ok, lifecycle_calls, probe, launcher, lifecycle_log,
                 update_call, popVars, transport, verify, tornVars, sweep, configured>>

\* Mutant of check_api_health_return: the parallel mode does not wait for
\* its workers.
check_api_health_return_early ==
  /\ health.pc = "checking"
  /\ health.parallel \/ DOMAIN health.endpoints = 1..Len(HealthEndpoints)
  /\ health' = [health EXCEPT
                  !.pc = "returned",
                  !.overall_status =
                     OverallStatus(Cardinality(health.successes), Len(HealthEndpoints))]
  /\ UNCHANGED <<clientVars, mainVars, thread, stopperVars, runVars, loopers,
                 launched_ok, lifecycle_calls, probe, launcher, lifecycle_log,
                 update_call, popVars, transport, verify, tornVars, sweep, configured>>

\* sum(results) has every result (the generator is exhausted, or the with
\* block of the executor has joined its workers): overall_status, return.
check_api_health_return ==
  /\ health.pc = "checking"
  /\ DOMAIN health.endpoints = 1..Len(HealthEndpoints)
  /\ health' = [health EXCEPT
                  !.pc = "returned",
                  !.overall_status =
                     OverallStatus(Cardinality(health.successes), Len(HealthEndpoints))]
  /\ UNCHANGED <<clientVars, mainVars, thread, stopperVars, runVars, loopers,
                 launched_ok, lifecycle_calls, probe, launcher, lifecycle_log,
                 update_call, popVars, transport, verify, tornVars, sweep, configured>>

NextHealth ==
  \/ check_api_health_call
  \/ \E i \in 1..Len(HealthEndpoints) : check_api_health_check(i)
  \/ check_api_health_return

SpecHealth == InitLaunched /\ [][NextHealth]_vars

\* Payloads of the status polls two threads may be handling at once.
TornPolls ==
  {<<AppDict("BUSY", "CONNECTED"), StatusDict(TxtStarted)>>,
   <<AppDict("READY", "CONNECTED"), StatusDict(TxtMiddle)>>,
   <<AppDict("READY", "CONNECTED"), StatusNotDict>>,
   <<AppNotDict, StatusNoKey>>}

\* A thread enters update_system_state(app_state_dict, test_status_dict).
update_system_state_begin(w) ==
  /\ writers[w].pending = <<>>
  /\ writers[w].calls < MaxWriterCalls
  /\ \E p \in TornPolls :
       writers' = [writers EXCEPT ![w] = [calls |-> @.calls + 1,
                                          pending |-> Writes(p[1], p[2]),
                                          app |-> p[1], status |-> p[2]]]
  /\ UNCHANGED <<clientVars, mainVars, thread, stopperVars, runVars, loopers,
                 launched_ok, lifecycle_calls, probe, launcher, lifecycle_log,
                 update_call, popVars, apiVars, seen, sweep, configured>>

\* The thread makes its next assignment to an attribute of the snapshot.
update_system_state_write(w) ==
  /\ writers[w].pending # <<>>
  /\ system_state_data' = Assigned(system_state_data, Head(writers[w].pending))
  /\ writers' = [writers EXCEPT ![w].pending = Tail(@)]
  /\ UNCHANGED <<api_handler, controller, base_url, ip_address, popup_thread_active,
                 stop_requested, mainVars, thread, stopperVars, runVars, loopers,
                 launched_ok, lifecycle_calls, probe, launcher, lifecycle_log,
                 update_call, popVars, apiVars, seen, sweep, configured>>

\* The threads between their first and their last assignment.
Midway == {w \in Writers : writers[w].pending # <<>>}

\* save_message_by_test_case on the responder thread reads
\* self.system_state_data.test_case_name.
read_test_case_name ==
  /\ seen.reads < MaxReads
  /\ seen' = [seen EXCEPT !.reads = @ + 1, !.snapshot = system_state_data,
                          !.midway = Midway]
  /\ UNCHANGED <<clientVars, mainVars, thread, stopperVars, runVars, loopers,
                 launched_ok, lifecycle_calls, probe, launcher, lifecycle_log,
                 update_call, popVars, apiVars, writers, sweep, configured>>

NextSnapshotThreads ==
  \/ \E w \in Writers : update_system_state_begin(w)
  \/ \E w \in Writers : update_system_state_write(w)
  \/ read_test_case_name

SpecSnapshotThreads == InitLaunched /\ [][NextSnapshotThreads]_vars


\* A direct call of run_diagnostics() in which at most one lookup is
\* answered by a failure.
run_diagnostics_call ==
  /\ pc = "idle"
  /\ sweep.calls < MaxSweeps
  /\ \E bad \in 0..Len(SweepLookups), how \in SweepFailures :
       LET r == run_diagnostics(api_handler, AnswersWith(bad, how))
       IN  sweep' = [sweep EXCEPT !.calls = @ + 1,
                                  !.bad = bad,
                                  !.how = IF bad = 0 THEN "transport" ELSE how,
                                  !.issued = r.issued,
                                  !.entered = r.entered,
                                  !.raised = r.raised]
  /\ UNCHANGED <<clientVars, mainVars, thread, stopperVars, runVars, loopers,
                 launched_ok, lifecycle_calls, probe, otherExtVars>>

\* run_diagnostics() as a standalone operation, before and after launch.
NextSweep == run_diagnostics_call

SpecSweep == (InitConstructed \/ InitLaunched) /\ [][NextSweep]_vars

\* ------------------------------------- launch_app, the poll step by step

\* launch_app() up to the call of start_and_get_url: the controller is made
\* from app_path and known_port alone, so its max_connection_attempts and
\* connection_timeout are the defaults of WebAppController.__init__ and
\* the client's configured values are not handed over.
launch_app_construct ==
  /\ pc = "idle"
  /\ lifecycle_calls = 0
  /\ lifecycle_calls' = 1
  /\ controller' = "WebAppController"
  /\ \E known_port \in Ports : launcher' = NewController(known_port)
  /\ lifecycle_log' = [lifecycle_log EXCEPT !.last = "launch_app",
                                            !.got_url = FALSE,
                                            !.version_ok = FALSE,
                                            !.repeated = FALSE]
  /\ pc' = "launch_start"
  /\ UNCHANGED <<api_handler, base_url, ip_address, popup_thread_active, stop_requested,
                 system_state_data, result, test_started, waited, popup_thread, thread,
                 stopperVars, runVars, loopers, launched_ok, probe, update_call, popVars,
                 apiVars, tornVars, sweep, configured>>

\* launch_app() once start_and_get_url has returned: with a URL the API
\* handler is made and the version request follows, without one the call
\* returns False.
launch_app_started ==
  /\ pc = "launch_start"
  /\ launcher.lpc = "idle"
  /\ launcher.h.op = "start"
  /\ launcher.h.ret # "pending"
  /\ base_url' = launcher.h.ret
  /\ lifecycle_log' = [lifecycle_log EXCEPT !.got_url = (launcher.h.ret # NONE)]
  /\ IF launcher.h.ret # NONE
       THEN /\ api_handler' = "GRLApiHandler"
            /\ pc' = "launch_verify"
            /\ result' = NONE
       ELSE /\ api_handler' = api_handler
            /\ pc' = "idle"
            /\ result' = "False"
  /\ UNCHANGED <<controller, ip_address, popup_thread_active, stop_requested,
                 system_state_data, test_started, waited, popup_thread, thread,
                 stopperVars, runVars, loopers, launched_ok, lifecycle_calls, probe,
                 launcher, update_call, popVars, apiVars, tornVars, sweep, configured>>

\* GRLApiClient.__init__ with any of the configurations.
InitConfigured ==
  /\ \E common \in ConfiguredCommon : QuiescentConfigured(common)
  /\ api_handler = NONE
  /\ controller = NONE
  /\ base_url = NONE
  /\ stop_requested = FALSE
  /\ result = NONE
  /\ thread = [t \in Threads |-> "none"]
  /\ launched_ok = FALSE
  /\ launcher = NoController

\* One launch_app() of a configured client, the controller's call taken
\* step by step, the subprocess ending whenever it does.
NextLaunchPoll ==
  \/ launch_app_construct
  \/ (pc = "launch_start" /\ launcher.calls = 0 /\ start_and_get_url_call)
  \/ launch_process
  \/ start_and_get_url_initial_wait
  \/ start_and_get_url_round
  \/ start_and_get_url_probe
  \/ process_exits
  \/ launch_app_started
  \/ launch_app_verify

SpecLaunchPoll == InitConfigured /\ [][NextLaunchPoll]_vars

\* The last tick of the responder found a dialog with a message and its
\* write of the per-test-case log succeeded.
AppendedByTest ==
  /\ popup_call.ticks > 0
  /\ popup_call.fetched.kind = "dialog"
  /\ popup_call.writes[2] = "ok"

\* The messages the per-test-case file f holds under key k.
StoredUnder(f, k) ==
  IF f.kind = "object" /\ k \in DOMAIN f.map THEN f.map[k] ELSE <<>>

\* The keys of the per-test-case file f.
StoredKeys(f) == IF f.kind = "object" THEN DOMAIN f.map ELSE {}

\* The last tick added exactly its message at the end of the list under k.
FiledUnder(k) ==
  StoredUnder(popup_files.by_test, k)
    = StoredUnder(popup_call.before.by_test, k) \o <<popup_call.fetched.message>>

\* ---- C21 (SpecPopupLog).  After save_message_by_test_case appended message
\* M while the snapshot named test case T, the file read back is a mapping in
\* which the list under T is the list stored before followed by M, and every
\* other key stored before is still there with its list unchanged; this holds
\* after every sequence of status polls and ticks.
C21_AppendRoundTrip ==
  AppendedByTest =>
    LET T == IF popup_call.snapshot.test_case_name.some
                  /\ popup_call.snapshot.test_case_name.s # <<>>
               THEN popup_call.snapshot.test_case_name.s
               ELSE OtherMessage
    IN  /\ popup_files.by_test.kind = "object"
        /\ FiledUnder(T)
        /\ StoredKeys(popup_files.by_test) = StoredKeys(popup_call.before.by_test) \cup {T}
        /\ \A k \in StoredKeys(popup_call.before.by_test) \ {T} :
             StoredUnder(popup_files.by_test, k) = StoredUnder(popup_call.before.by_test, k)

\* Two messages in order under one test case, beside the entry of another.
C21_Witness ==
  /\ AppendedByTest
  /\ StoredKeys(popup_files.by_test) = {<<"Foo">>, <<"TC1">>}
  /\ StoredUnder(popup_files.by_test, <<"TC1">>) = <<"m1", "m2">>
  /\ StoredUnder(popup_files.by_test, <<"Foo">>) = <<"m2">>
  /\ popup_call.snapshot.test_case_name = SomeStr(<<"TC1">>)

\* ---- C22 (SpecPopupLog).  The claim as stated: when the client has been
\* constructed (both writes of create_empty_json succeeded, no tick yet), the
\* flat log holds the empty JSON array and the per-test-case log holds the
\* empty JSON object.
C22_LogsResetAsStated ==
  (popup_call.ticks = 0 /\ popup_call.created = <<"ok", "ok">>)
    => /\ popup_files.flat = ArrayFile(<<>>)
       /\ popup_files.by_test = ObjectFile(EmptyMap)

\* The snapshot names no running test: no name, or the last status parsed
\* was Completed.
NoActiveTest(st) ==
  \/ ~st.test_case_name.some
  \/ st.test_case_name.s = <<>>
  \/ st.test_status = SomeStr(<<"Completed">>)

\* ---- C30 (SpecPopupLog).  The claim as stated: a message is filed under the
\* name of the active test case, and under "Other_message" whenever no test
\* case is active: before any test and after a test run has completed.
C30_FiledUnderActiveTestOrOther ==
  AppendedByTest =>
    FiledUnder(IF NoActiveTest(popup_call.snapshot)
                 THEN OtherMessage
                 ELSE popup_call.snapshot.test_case_name.s)

\* The acknowledge the claim describes for dialog d.
Acknowledges(put, d) ==
  /\ put.responseButton = "Ok"
  /\ put.shouldTextBoxBeAdded = FALSE
  /\ put.popID = (IF d.popID.has THEN d.popID.v ELSE 23)
  /\ put.title = (IF d.title.has THEN d.title.v ELSE "GRL Test Solution")

\* ---- C28 (SpecPopupLog).  The claim as stated: a tick that fetched no
\* dialog with a message writes nothing and submits no response; any other
\* tick leaves the message at the end of the flat log and of the list of the
\* per-test-case log, and submits exactly one acknowledge: button "Ok", no
\* text box, popID and title of the dialog.
C28_TickAsStated ==
  popup_call.ticks > 0 =>
    IF popup_call.fetched.kind # "dialog"
      THEN popup_files = popup_call.before /\ popup_call.puts = <<>>
      ELSE /\ popup_files.flat.kind = "array"
           /\ popup_files.flat.list
                = popup_call.before.flat.list \o <<popup_call.fetched.message>>
           /\ \E k \in StoredKeys(popup_files.by_test) : FiledUnder(k)
           /\ Len(popup_call.puts) = 1
           /\ Acknowledges(popup_call.puts[1], popup_call.fetched)

\* ---- C28 (SpecPopupLog), amended.  As stated, except that a log whose file
\* cannot be read (the flat log only) or written does not get the message:
\* it is left as found if open() failed or the flat file held no list, and
\* truncated if the write failed; the acknowledge is submitted all the same.
C28_TickLogsUnlessWriteFails ==
  popup_call.ticks > 0 =>
    IF popup_call.fetched.kind # "dialog"
      THEN popup_files = popup_call.before /\ popup_call.puts = <<>>
      ELSE /\ IF popup_call.before.flat.kind \in {"partial", "object"}
                   \/ popup_call.writes[1] = "open_fails"
                THEN popup_files.flat = popup_call.before.flat
                ELSE IF popup_call.writes[1] = "ok"
                  THEN /\ popup_files.flat.kind = "array"
                       /\ popup_files.flat.list
                            = popup_call.before.flat.list \o <<popup_call.fetched.message>>
                  ELSE popup_files.flat.kind = "partial"
           /\ IF popup_call.writes[2] = "open_fails"
                THEN popup_files.by_test = popup_call.before.by_test
                ELSE IF popup_call.writes[2] = "ok"
                  THEN \E k \in StoredKeys(popup_files.by_test) : FiledUnder(k)
                  ELSE popup_files.by_test.kind = "partial"
           /\ Len(popup_call.puts) = 1
           /\ Acknowledges(popup_call.puts[1], popup_call.fetched)

\* A dialog logged in both files and acknowledged with its own popID.
C28_Witness ==
  /\ popup_call.ticks > 0
  /\ popup_call.fetched = Dialog("m1", Has(7), Has("Calibration"))
  /\ popup_call.writes = <<"ok", "ok">>
  /\ popup_files.flat = ArrayFile(<<"m2", "m1">>)
  /\ FiledUnder(<<"TC1">>)
  /\ Len(popup_call.puts) = 1
  /\ popup_call.puts[1].popID = 7

\* A send_request() call that did not get a 2xx response.
FailedCall ==
  /\ transport.calls > 0
  /\ ~(transport.wire.kind = "http" /\ transport.result.raised = NONE
       /\ 200 <= transport.wire.status_code /\ transport.wire.status_code < 300)

\* ---- C23 (SpecTransport).  The claim as stated: send_request raises
\* nothing, whatever the method and the failure, and the result of a failed
\* call has success = false and an error field.
C23_NeverRaisesFailuresFlagged ==
  transport.calls > 0 =>
    /\ transport.result.raised = NONE
    /\ FailedCall => /\ transport.result.has_success
                     /\ ~transport.result.success
                     /\ transport.result.has_error

\* ---- C24 (SpecTransport).  The claim as stated: what a public operation
\* hands its caller is a return value, or the precondition failure of a
\* client without handler; here for verify_versions() and disconnect().
C24_NoExceptionEscapes ==
  /\ verify.result \in {NONE, "versions", RaisedPrecondition}
  /\ result \in {NONE, "True", "False"}

\* The classification the claim gives for n endpoints, k of which succeeded.
Classification(k, n) ==
  CASE k = n -> "healthy"
    [] k > 0 /\ k < n -> "degraded"
    [] OTHER -> "critical"

\* Endpoint i answered with a 2xx response.
Succeeded(i) ==
  /\ health.wires[i].kind = "http"
  /\ health.wires[i].status_code \in 200..299

\* ---- C25 (SpecHealth).  When check_api_health has returned, in either
\* mode, its record has one entry per probed endpoint ("ok" exactly for those
\* that succeeded) and overall_status is healthy / degraded / critical for
\* all / some / none succeeded: a function of the endpoint outcomes alone,
\* hence the same in both modes.
C25_HealthClassification ==
  health.pc = "returned" =>
    /\ DOMAIN health.endpoints = 1..Len(HealthEndpoints)
    /\ \A i \in 1..Len(HealthEndpoints) :
         health.endpoints[i].status = (IF Succeeded(i) THEN "ok" ELSE "error")
    /\ health.overall_status =
         Classification(Cardinality({i \in 1..Len(HealthEndpoints) : Succeeded(i)}),
                        Len(HealthEndpoints))

\* A parallel check that returned degraded: one endpoint failed.
C25_Witness ==
  /\ health.pc = "returned"
  /\ health.parallel
  /\ health.overall_status = "degraded"
  /\ health.endpoints[2].status = "error"
  /\ health.endpoints[1].status = "ok"

\* The snapshots whole update_system_state calls leave, one after the other
\* in any order, for the calls begun so far.
SerialSnapshots ==
  LET s0 == seen.initial
      after(st, w) == IF writers[w].calls > 0
                        THEN update_system_state(st, writers[w].app, writers[w].status)
                        ELSE st
  IN  {s0} \cup {after(s0, w) : w \in Writers}
           \cup {after(after(s0, p[1]), p[2]) :
                   p \in {q \in Writers \X Writers : q[1] # q[2]}}

\* ---- C27 (SpecSnapshotThreads).  The claim as stated: the record the
\* responder reads from, and the record the threads leave behind, are
\* snapshots that whole update_system_state calls produce: no mix of the
\* assignments of two calls, none of a call and the values before it.
C27_NoTornSnapshot ==
  /\ seen.reads > 0 => seen.snapshot \in SerialSnapshots
  /\ Midway = {} => system_state_data \in SerialSnapshots

\* submit_test_list is in its wait loop or its RUNNING loop (at a poll or at
\* a test of the loop condition, with a poll left within the runs followed)
\* and the stop flag is set.
StopPending ==
  /\ stop_requested
  /\ pc \in {"wait_check", "wait_poll", "wait_done", "run_poll", "run_check_stop",
             "run_done"}
  /\ pc = "run_poll" => run_checks < MaxRunChecks

\* submit_test_list has sent its force-stop and has the cancelled result.
Cancelled == result = RetCancelled /\ force_stops.monitor = 1

\* ---- C26 (SpecCancel).  Once the stop flag is set while submit_test_list
\* waits for the start or monitors the run, and every status request
\* returns, submit_test_list eventually sends the force-stop and returns the
\* cancelled result; a poll in flight when the flag is set is completed
\* first: its step ends at a test of the loop, with no result and no
\* force-stop yet.
C26_CancellationHonoured ==
  /\ StopPending ~> Cancelled
  /\ [][(stop_requested /\ pc \in {"wait_poll", "run_poll"} /\ pc' # pc)
          => /\ pc' \in {"wait_check", "run_poll", "run_check_stop", "run_done"}
             /\ last_poll'.polled
             /\ result' = result
             /\ force_stops' = force_stops]_vars

\* stop_test_run() during a run that had started: cancelled, one force-stop.
C26_Witness ==
  /\ Cancelled
  /\ pc = "idle"
  /\ stop_set_in_run /\ stop_calls = 1 /\ stopper_saw = "none"
  /\ ever_running
  /\ force_stops.stopper = 0

\* ---- C29 (SpecLoop).  The claim as stated: a responder thread leaves its
\* loop only with popup_thread_active cleared, and once the flag is cleared
\* a thread that is still in its loop (its request in flight returns)
\* eventually exits.
C29_ExitsOnlyAndOnceCleared ==
  /\ [][\A t \in Threads :
          (thread[t] # "exited" /\ thread'[t] = "exited") => ~popup_thread_active]_vars
  /\ \A t \in Threads :
       (~popup_thread_active /\ thread[t] \in {"check", "fetch", "respond"})
         ~> (thread[t] = "exited")

\* The messages log file f holds, whatever its shape.
Holds(f, message) ==
  \/ f.kind = "array" /\ \E i \in 1..Len(f.list) : f.list[i] = message
  \/ f.kind = "object" /\ \E k \in DOMAIN f.map :
                            \E i \in 1..Len(f.map[k]) : f.map[k][i] = message

\* ---- C31 (SpecPopupLog).  The claim as stated: whatever the two log files
\* held before (nothing, an empty container, text that is no JSON, a value of
\* the other shape), after save_only_message and save_message_by_test_case
\* ran with a non-empty message and could write, the flat file is a JSON
\* array and the per-test-case file a JSON object, and both hold the message.
C31_AppendReinitialises ==
  (/\ popup_call.ticks > 0
   /\ popup_call.fetched.kind = "dialog"
   /\ popup_call.writes = <<"ok", "ok">>)
    => /\ popup_files.flat.kind = "array"
       /\ Holds(popup_files.flat, popup_call.fetched.message)
       /\ popup_files.by_test.kind = "object"
       /\ Holds(popup_files.by_test, popup_call.fetched.message)

\* ---- C32 (SpecLoop).  On a launched client, connect() without an address
\* argument and without a configured address returns {success: False,
\* error} at once: no responder thread is started, popup_thread_active is
\* left as it was and the call does not go on to the equipment-connect
\* request; a call that does go on has resolved an address.
C32_NoAddressFailsAtOnce ==
  /\ [][(result' = RetNoIp /\ result # RetNoIp)
          => /\ ip_address = NONE
             /\ pc = "idle" /\ pc' = "idle"
             /\ UNCHANGED <<popup_thread_active, popup_thread, thread, sweep>>]_vars
  /\ [][(pc = "idle" /\ pc' = "connect_request") => sweep'.ip_address # NONE]_vars

\* The first call of a launched client without a configured address failed.
C32_Witness ==
  /\ result = RetNoIp
  /\ api_handler # NONE
  /\ ip_address = NONE
  /\ pc = "idle"
  /\ ~popup_thread_active
  /\ popup_thread = 0
  /\ \A t \in Threads : thread[t] = "none"

\* ---- C33 (SpecLoop).  connect() calls run_diagnostics() if and only if
\* connect_to_test_equipment reported success, run_diagnostics() has
\* returned when connect() is about to return {success: True, data}, and
\* whatever single lookup of the sweep failed the result is that success.
C33_SweepIffConnected ==
  /\ pc = "connect_diagnostics" => (sweep.answer = "success" /\ ~sweep.diagnosed)
  /\ pc \in {"connect_finally", "connect_join"}
       => /\ sweep.diagnosed <=> sweep.answer = "success"
          /\ sweep.answer = "success" <=> result = RetConnected

\* connect() about to return success, the sweep behind it.
C33_Witness ==
  /\ pc = "connect_join"
  /\ sweep.answer = "success"
  /\ sweep.diagnosed
  /\ result = RetConnected

\* ---- C34 (SpecSweep).  The claim as stated: in a sweep on a launched
\* client, whichever single lookup is answered by a failure or by a payload
\* of another shape, every lookup of the sweep is issued, and the call
\* returns normally.
C34_EveryLookupIssued ==
  (sweep.calls > 0 /\ api_handler # NONE)
    => /\ sweep.issued = SweepLookups
       /\ ~sweep.raised

\* ---- C35 (SpecResponder).  submit_test_list clears stop_requested when it
\* starts a run, so a run is cancelled only by a stop request made since it
\* began (never by one made while idle or left by an earlier cancelled
\* run), and nothing but the start of a run clears the flag: after a
\* cancelled run it stays true until the next run starts.
C35_StaleStopNeverCancels ==
  /\ []((pc = "cancel" \/ (pc \in {"submit_finally", "submit_join"}
                              /\ result = RetCancelled))
          => stop_set_in_run)
  /\ [][(pc = "idle" /\ pc' = "submit_post") => ~stop_requested']_vars
  /\ [][(stop_requested /\ ~stop_requested') => (pc = "idle" /\ pc' = "submit_post")]_vars

\* A run that began after the only stop request ran to completion.
C35_Witness ==
  /\ pc = "idle"
  /\ result = RetSuccess
  /\ stop_calls = 1
  /\ ~stop_set_in_run
  /\ ~stop_requested
  /\ ever_running

\* ---- C36 (SpecMonitor).  When submit_test_list has left its polling loops
\* with stop_requested true it goes to the cancellation, whatever the last
\* poll observed and whether or not the test ever started; the cancellation
\* sends one force-stop and returns the cancelled result.
C36_StopBeforeCompletion ==
  /\ [][(pc = "run_done" /\ pc' # "run_done")
          => pc' = (IF stop_requested THEN "cancel" ELSE "submit_finally")]_vars
  /\ [][(pc = "cancel" /\ pc' # "cancel")
          => /\ force_stops'.monitor = force_stops.monitor + 1
             /\ result' = RetCancelled]_vars
  /\ []((pc = "idle" /\ result = RetCancelled) => force_stops.monitor = 1)

\* A run cancelled with a force-stop although no poll ever saw the test
\* running and the last poll reported READY.
C36_Witness ==
  /\ pc = "idle"
  /\ result = RetCancelled
  /\ force_stops.monitor = 1
  /\ ~ever_running
  /\ last_poll.polled
  /\ ~last_poll.running
  /\ ReportedAppState(last_poll.app) = "READY"

\* How often message m occurs in sequence q.
CountIn(q, m) == Cardinality({i \in 1..Len(q) : q[i] = m})

\* Over the lists map holds under keys: how many messages (m = ""), or how
\* often message m.
RECURSIVE SumOver(_, _, _)
SumOver(map, keys, m) ==
  IF keys = {} THEN 0
  ELSE LET k == CHOOSE x \in keys : TRUE
       IN  (IF m = "" THEN Len(map[k]) ELSE CountIn(map[k], m))
             + SumOver(map, keys \ {k}, m)

\* The number of messages log file f holds (an unreadable file holds none).
MessagesStored(f) ==
  CASE f.kind = "array" -> Len(f.list)
    [] f.kind = "object" -> SumOver(f.map, DOMAIN f.map, "")
    [] OTHER -> 0

\* How often log file f holds message m.
Occurrences(f, m) ==
  CASE f.kind = "array" -> CountIn(f.list, m)
    [] f.kind = "object" -> SumOver(f.map, DOMAIN f.map, m)
    [] OTHER -> 0

\* The files were reset at construction and every write since succeeded.
LogsIntact ==
  /\ popup_call.created = <<"ok", "ok">>
  /\ ~popup_call.write_failed

SameDialogTwice ==
  /\ popup_call.ticks = 2
  /\ popup_call.dialogs = 2
  /\ popup_call.fetched.kind = "dialog"
  /\ popup_call.before.flat = ArrayFile(<<popup_call.fetched.message>>)

C40_PollWithinConfiguration ==
  [][(pc = "launch_start" /\ launcher'.h.rounds > launcher.h.rounds)
       => /\ launcher'.h.rounds <= configured.max_connection_attempts
          /\ launcher.elapsed <= configured.connection_timeout]_vars

\* The part that holds with the configured count alone: no round beyond it.
C40_RoundsWithinConfiguration ==
  launcher.h.rounds <= configured.max_connection_attempts

\* The part that holds with the configured timeout alone.
C40_TimeoutWithinConfiguration ==
  [][(pc = "launch_start" /\ launcher'.h.rounds > launcher.h.rounds)
       => launcher.elapsed <= configured.connection_timeout]_vars

\* What bounds the poll of launch_app(): the defaults of the controller.
C40_PollWithinDefaults ==
  [][(pc = "launch_start" /\ launcher'.h.rounds > launcher.h.rounds)
       => /\ launcher'.h.rounds <= max_connection_attempts
          /\ launcher.elapsed <= connection_timeout]_vars

====
